---------------------------- MODULE Spec2Model ----------------------------
(***************************************************************************)
(* A model of VidHub's in-memory entity store (server/storage.ts, class    *)
(* MemStorage) and of the request handlers of server/routes.ts that drive  *)
(* it.  A store method that contains no await between its own reads and    *)
(* writes runs to completion on the single-threaded event loop, and is one *)
(* action here.                                                            *)
(*                                                                         *)
(* Timestamps (createdAt, updatedAt) and the media URLs of a video are     *)
(* left out: no operation modelled here reads them.  A field the code      *)
(* leaves undefined and only tests for truthiness (isDeleted,              *)
(* permanentlyDeleted) is FALSE here.                                      *)
(***************************************************************************)
EXTENDS Integers, Sequences, FiniteSets

(***************************************************************************)
(* Bounds of the model.                                                    *)
(***************************************************************************)
\* videos createVideo may allocate where reactions, saves and views are explored
MaxVideos == 1
\* videos createVideo may allocate where permanent deletion is explored
MaxPurgeVideos == 2
\* incrementViews is cut off at this view count
MaxViews == 1
\* comments createComment may allocate
MaxComments == 3
\* ids beyond a full watch history that may be recorded
MaxNewIds == 2
\* videos createVideo may allocate where the listing is explored
MaxListVideos == 3
\* playlists createPlaylist may allocate
MaxPlaylists == 1
\* length of the words similarity is applied to
MaxWordLen == 2
\* videos in the store that is searched
MaxSearchVideos == 3
\* videos one playlist may be given
MaxPlaylistVideos == 1
\* ad impressions one video may be paid for
MaxImpressions == 2
\* subscriptions createSubscription may allocate
MaxSubscriptions == 3
\* users createUser may allocate where registration is explored
MaxUsers == 3
\* async functions that may be suspended at an await at one time
MaxInFlight == 2
\* the advertisements created
MaxAds == 2
\* the tokens issued, and the hours the clock goes up to and by
MaxTokens == 3
MaxClock == 36
ClockStep == 12

\* "Keep only last 100 videos" (addToWatchHistory)
HistoryLimit == 100
\* "Set fixed revenue per view (5 cents)" (the impression handler)
revenueInCents == 5
\* the hours a session lasts: 24 * 60 * 60 * 1000 ms
SessionLifetime == 24

\* the ids checkAuth attributes requests to: two registered users
Users == {1, 2}
\* ids a caller may name: the allocated ones and one that is never allocated
VideoIds == 1 .. (MaxVideos + 1)
PurgeVideoIds == 1 .. (MaxPurgeVideos + 1)
PlaylistIds == 1 .. (MaxPlaylists + 1)
\* the ids a request may name as a user: the registered ones and one more
UserIds == Users \cup {Cardinality(Users) + 1}
ListVideoIds == 1 .. (MaxListVideos + 1)

VARIABLES
    videos,           \* MemStorage.videos : Map<number, Video>
    videoId,          \* MemStorage.videoId : the next video id
    comments,         \* MemStorage.comments : Map<number, Comment>
    commentId,        \* MemStorage.commentId : the next comment id
    userLikes,        \* MemStorage.userLikes : the keys "videoId_userId" present
    userDislikes,     \* MemStorage.userDislikes : the keys present
    userSavedVideos,  \* MemStorage.userSavedVideos : the keys present
    watchHistory,     \* MemStorage.watchHistory : Map<number, number[]>
    playlists,        \* MemStorage.playlists : Map<number, playlist>
    playlistId,       \* MemStorage.playlistId : the next playlist id
    users,            \* MemStorage.users : Map<number, User>
    userIdNext,       \* MemStorage.userId : the next user id
    subscriptions,    \* MemStorage.subscriptions : Map<number, Subscription>
    subscriptionId,   \* MemStorage.subscriptionId : the next subscription id
    videoProgress,    \* MemStorage.videoProgress : Map<string, number>
    ads,              \* MemStorage.ads : Map<number, Advertisement>
    adIdNext,         \* MemStorage.adId : the next advertisement id
    sessions,         \* auth.ts sessions : the session of each token, the
                      \* tokens numbered in the order of their creation;
                      \* present tells that the key is in the object still
    now,              \* the clock new Date() and Date.now() read, in hours
    inflight,         \* the async functions suspended at an await, in the
                      \* order in which they will be resumed
    held,             \* a caller's variable: the Video a store call returned
    response,         \* what the last read of the store, search request or
                      \* helper call was given (args) and returned (body),
                      \* and for how many videos it computed a score
    last,             \* history: the last call made and its outcome
    purged,           \* history: the video ids permanentlyDeleteVideo removed
    recOrder          \* history: per user, the ids recorded by
                      \* addToWatchHistory, in the order of their last
                      \* recording (the most recent one last)

\* the users and what is kept per user besides the videos' maps, the
\* sessions and the suspended functions
accountVars == <<users, userIdNext, subscriptions, subscriptionId, videoProgress,
                 ads, adIdNext, sessions, now, inflight>>
storeVars == <<videos, videoId, comments, commentId, userLikes, userDislikes,
               userSavedVideos, watchHistory, playlists, playlistId,
               users, userIdNext, subscriptions, subscriptionId, videoProgress,
               ads, adIdNext>>
vars == <<videos, videoId, comments, commentId, userLikes, userDislikes,
          userSavedVideos, watchHistory, playlists, playlistId, users, userIdNext,
          subscriptions, subscriptionId, videoProgress, ads, adIdNext,
          sessions, now, inflight, held, response, last, purged, recOrder>>

(***************************************************************************)
(* Strings.  A string is a sequence of one-character strings, so that the  *)
(* composite keys `${id}_${userId}` are built and taken apart as the code  *)
(* does it.                                                                *)
(***************************************************************************)
DigitChars == <<"0", "1", "2", "3", "4", "5", "6", "7", "8", "9">>

RECURSIVE NatToString(_)
NatToString(n) ==
    IF n < 10 THEN <<DigitChars[n + 1]>>
    ELSE NatToString(n \div 10) \o <<DigitChars[(n % 10) + 1]>>

\* `${n}` for an integer n
NumToString(n) == IF n < 0 THEN <<"-">> \o NatToString(0 - n) ELSE NatToString(n)

\* `${id}_${userId}`: likeKey, dislikeKey, savedKey
Key(id, userId) == NumToString(id) \o <<"_">> \o NumToString(userId)

\* String.prototype.endsWith
EndsWith(s, suffix) ==
    /\ Len(suffix) <= Len(s)
    /\ SubSeq(s, Len(s) - Len(suffix) + 1, Len(s)) = suffix

\* String.prototype.includes
Includes(s, sub) ==
    \E i \in 0 .. (Len(s) - Len(sub)) : SubSeq(s, i + 1, i + Len(sub)) = sub

\* key.split('_')[0]
SplitHead(s) ==
    IF \E i \in 1 .. Len(s) : s[i] = "_"
    THEN LET i == CHOOSE j \in 1 .. Len(s) :
                     s[j] = "_" /\ \A k \in 1 .. (j - 1) : s[k] # "_"
         IN  SubSeq(s, 1, i - 1)
    ELSE s

DigitValue(c) == (CHOOSE d \in 1 .. 10 : DigitChars[d] = c) - 1
IsDigit(c) == \E d \in 1 .. 10 : DigitChars[d] = c

\* the leading decimal digits of s
RECURSIVE DigitPrefix(_)
DigitPrefix(s) ==
    IF s = <<>> \/ ~IsDigit(Head(s)) THEN <<>>
    ELSE <<Head(s)>> \o DigitPrefix(Tail(s))

RECURSIVE DigitsValue(_)
DigitsValue(s) ==
    IF s = <<>> THEN 0
    ELSE 10 * DigitsValue(SubSeq(s, 1, Len(s) - 1)) + DigitValue(s[Len(s)])

\* parseInt(s) is NaN when s does not start with a number
ParsesAsInt(s) ==
    IF s # <<>> /\ Head(s) = "-" THEN DigitPrefix(Tail(s)) # <<>>
    ELSE DigitPrefix(s) # <<>>

\* parseInt(s), for an s that starts with a number
ParseInt(s) ==
    IF Head(s) = "-" THEN 0 - DigitsValue(DigitPrefix(Tail(s)))
    ELSE DigitsValue(DigitPrefix(s))

UpperChars == <<"A", "B", "C">>
LowerChars == <<"a", "b", "c">>

\* String.prototype.toLowerCase, over the letters the model uses
ToLowerCase(s) ==
    [i \in 1 .. Len(s) |->
        IF \E k \in 1 .. Len(UpperChars) : UpperChars[k] = s[i]
        THEN LowerChars[CHOOSE k \in 1 .. Len(UpperChars) : UpperChars[k] = s[i]]
        ELSE s[i]]

\* a description that is null: no string holds an element of several characters
Null == <<"null">>

(***************************************************************************)
(* Maps and arrays.                                                        *)
(***************************************************************************)
Max(a, b) == IF a >= b THEN a ELSE b
Min(a, b) == IF a <= b THEN a ELSE b

EmptyMap == [x \in {} |-> 0]

\* map.set(k, v)
MapSet(map, k, v) == [x \in (DOMAIN map) \cup {k} |-> IF x = k THEN v ELSE map[x]]

\* map.delete(k)
MapDelete(map, k) == [x \in (DOMAIN map) \ {k} |-> map[x]]

\* { ...video, ...updates }
Merge(video, updates) ==
    [f \in (DOMAIN video) \cup (DOMAIN updates) |->
        IF f \in DOMAIN updates THEN updates[f] ELSE video[f]]

\* the numbers of S in ascending order
RECURSIVE Ascending(_)
Ascending(S) ==
    IF S = {} THEN <<>>
    ELSE LET m == CHOOSE x \in S : \A y \in S : x <= y
         IN  <<m>> \o Ascending(S \ {m})

\* Array.from(map.values()): a Map iterates in insertion order, and the ids
\* that key videos and comments are allocated in ascending order and never
\* inserted a second time.
Values(map) == LET ks == Ascending(DOMAIN map) IN [i \in 1 .. Len(ks) |-> map[ks[i]]]

\* Array.from(set of keys): any order serves where the result is only tested
\* for membership
RECURSIVE SetToSeq(_)
SetToSeq(S) ==
    IF S = {} THEN <<>>
    ELSE LET x == CHOOSE y \in S : TRUE IN <<x>> \o SetToSeq(S \ {x})

\* array.reverse()
Reverse(s) == [i \in 1 .. Len(s) |-> s[Len(s) + 1 - i]]

\* array.slice(from, to), for 0 <= from
Slice(s, from, to) == SubSeq(s, from + 1, Min(to, Len(s)))

\* array.includes(x)
InArray(s, x) == \E i \in 1 .. Len(s) : s[i] = x

\* sorted holds its elements by descending id; x goes behind every element
\* whose id is not smaller
InsertById(sorted, x) ==
    LET n == Cardinality({i \in 1 .. Len(sorted) : sorted[i].id >= x.id})
    IN  SubSeq(sorted, 1, n) \o <<x>> \o SubSeq(sorted, n + 1, Len(sorted))

\* array.sort((a, b) => b.id - a.id): Array.prototype.sort is stable
RECURSIVE SortByIdDesc(_)
SortByIdDesc(s) ==
    IF s = <<>> THEN <<>>
    ELSE InsertById(SortByIdDesc(SubSeq(s, 1, Len(s) - 1)), s[Len(s)])

(***************************************************************************)
(* Reads of the store.                                                     *)
(***************************************************************************)
\* what a lookup of an absent key returns
Undefined == [undefined |-> TRUE]

\* MemStorage.getVideo; userId = 0 stands for no userId given
getVideo(id, userId) ==
    IF id \notin DOMAIN videos THEN Undefined
    ELSE IF userId # 0
         THEN Merge(videos[id],
                    [userLiked |-> Key(id, userId) \in userLikes,
                     userDisliked |-> Key(id, userId) \in userDislikes,
                     userSaved |-> Key(id, userId) \in userSavedVideos])
         ELSE videos[id]

\* MemStorage.getVideos; categoryId = 0 stands for no categoryId given
getVideos(limit, offset, categoryId, showDeleted) ==
    LET InCategory(video) ==
            categoryId = 0 \/ categoryId = 1 \/ video.categoryId = categoryId
        Visible(video) ==
            IF showDeleted
            THEN video.isDeleted /\ ~video.permanentlyDeleted
            ELSE ~video.isDeleted /\ ~video.permanentlyDeleted
    IN  Slice(SortByIdDesc(SelectSeq(SelectSeq(Values(videos), InCategory), Visible)),
              offset, offset + limit)

\* MemStorage.getUserVideos
getUserVideos(userId) ==
    LET Owned(video) == video.userId = userId
        Visible(video) == ~video.permanentlyDeleted /\ ~video.isDeleted
    IN  SortByIdDesc(SelectSeq(SelectSeq(Values(videos), Owned), Visible))

\* MemStorage.searchVideos; categoryId = 0 stands for no categoryId given
searchVideos(query, categoryId) ==
    LET lowerQuery == ToLowerCase(query)
        Matches(video) ==
            /\ \/ Includes(ToLowerCase(video.title), lowerQuery)
               \/ /\ video.description # Null
                  /\ video.description # <<>>
                  /\ Includes(ToLowerCase(video.description), lowerQuery)
            /\ (categoryId = 0 \/ categoryId = 1 \/ video.categoryId = categoryId)
    IN  SelectSeq(Values(videos), Matches)

\* MemStorage.getVideoComments
getVideoComments(vid) ==
    LET OfVideo(comment) == comment.videoId = vid
    IN  SortByIdDesc(SelectSeq(Values(comments), OfVideo))

\* MemStorage.isSaved
isSaved(vid, userId) == Key(vid, userId) \in userSavedVideos

\* MemStorage.getSavedVideos
getSavedVideos(userId) ==
    LET suffix == <<"_">> \o NumToString(userId)
        savedKeys == {key \in userSavedVideos : EndsWith(key, suffix)}
        videoIds == {ParseInt(SplitHead(key)) :
                        key \in {k \in savedKeys : ParsesAsInt(SplitHead(k))}}
        Saved(video) == video.id \in videoIds
    IN  SortByIdDesc(SelectSeq(Values(videos), Saved))

\* this.watchHistory.get(userId) || []
HistoryOf(userId) ==
    IF userId \in DOMAIN watchHistory THEN watchHistory[userId] ELSE <<>>

\* MemStorage.getWatchHistory
getWatchHistory(userId) ==
    LET history == HistoryOf(userId)
        Stored(id) == id \in DOMAIN videos
        found == SelectSeq(history, Stored)
    IN  Reverse([i \in 1 .. Len(found) |-> videos[found[i]]])

(***************************************************************************)
(* Writes of the store, as functions of the state they start from.         *)
(***************************************************************************)
\* the part of the store likeVideo and dislikeVideo read and write
Reactions == [videos |-> videos, userLikes |-> userLikes, userDislikes |-> userDislikes]

\* likeVideo with a fault seeded, a variant the properties must tell apart:
\*   "keepDislike"  a new like leaves the user's dislike in place
\*   "noDecrement"  taking a like back leaves likes as it was
\*   "lateCheck"    the like edge is set before the video is looked up
likeVideoFaulty(S, id, userId, fault) ==
    LET key == Key(id, userId) IN
    IF id \notin DOMAIN S.videos
    THEN [store |-> IF fault = "lateCheck"
                    THEN [S EXCEPT !.userLikes = @ \cup {key}] ELSE S,
          threw |-> TRUE, ret |-> Undefined]
    ELSE
      LET video == S.videos[id]
          after ==
            IF key \in S.userLikes
            THEN [video |-> IF fault = "noDecrement" THEN video
                            ELSE [video EXCEPT !.likes = Max(0, @ - 1)],
                  userLikes |-> S.userLikes \ {key},
                  userDislikes |-> S.userDislikes]
            ELSE IF key \in S.userDislikes /\ fault # "keepDislike"
            THEN [video |-> [video EXCEPT !.likes = @ + 1,
                                          !.dislikes = Max(0, @ - 1)],
                  userLikes |-> S.userLikes \cup {key},
                  userDislikes |-> S.userDislikes \ {key}]
            ELSE [video |-> [video EXCEPT !.likes = @ + 1],
                  userLikes |-> S.userLikes \cup {key},
                  userDislikes |-> S.userDislikes]
      IN  [store |-> [videos |-> MapSet(S.videos, id, after.video),
                      userLikes |-> after.userLikes,
                      userDislikes |-> after.userDislikes],
           threw |-> FALSE,
           ret |-> Merge(after.video,
                         [userLiked |-> key \in after.userLikes,
                          userDisliked |-> key \in after.userDislikes])]

likeVideoKeepsDislike(S, id, userId) == likeVideoFaulty(S, id, userId, "keepDislike")
likeVideoNoDecrement(S, id, userId) == likeVideoFaulty(S, id, userId, "noDecrement")
likeVideoLateCheck(S, id, userId) == likeVideoFaulty(S, id, userId, "lateCheck")

\* MemStorage.likeVideo on the store S: the store it leaves, whether it threw
\* 'Video not found', and the value it returns
likeVideo(S, id, userId) ==
    IF id \notin DOMAIN S.videos
    THEN [store |-> S, threw |-> TRUE, ret |-> Undefined]
    ELSE
      LET video == S.videos[id]
          likeKey == Key(id, userId)
          dislikeKey == Key(id, userId)
          after ==
            IF likeKey \in S.userLikes
            THEN [video |-> [video EXCEPT !.likes = Max(0, @ - 1)],
                  userLikes |-> S.userLikes \ {likeKey},
                  userDislikes |-> S.userDislikes]
            ELSE IF dislikeKey \in S.userDislikes
            THEN [video |-> [video EXCEPT !.likes = @ + 1,
                                          !.dislikes = Max(0, @ - 1)],
                  userLikes |-> S.userLikes \cup {likeKey},
                  userDislikes |-> S.userDislikes \ {dislikeKey}]
            ELSE [video |-> [video EXCEPT !.likes = @ + 1],
                  userLikes |-> S.userLikes \cup {likeKey},
                  userDislikes |-> S.userDislikes]
      IN  [store |-> [videos |-> MapSet(S.videos, id, after.video),
                      userLikes |-> after.userLikes,
                      userDislikes |-> after.userDislikes],
           threw |-> FALSE,
           ret |-> Merge(after.video,
                         [userLiked |-> likeKey \in after.userLikes,
                          userDisliked |-> dislikeKey \in after.userDislikes])]

\* a faulty dislikeVideo that takes the user's like edge away and leaves
\* likes as it was
dislikeVideoLikesKept(S, id, userId) ==
    IF id \notin DOMAIN S.videos
    THEN [store |-> S, threw |-> TRUE, ret |-> Undefined]
    ELSE
      LET key == Key(id, userId)
          had == key \in S.userDislikes
          video == [S.videos[id] EXCEPT
                       !.dislikes = IF had THEN Max(0, @ - 1) ELSE @ + 1]
          likeEdges == IF had THEN S.userLikes ELSE S.userLikes \ {key}
          dislikeEdges == IF had THEN S.userDislikes \ {key}
                          ELSE S.userDislikes \cup {key}
      IN  [store |-> [videos |-> MapSet(S.videos, id, video),
                      userLikes |-> likeEdges,
                      userDislikes |-> dislikeEdges],
           threw |-> FALSE,
           ret |-> Merge(video, [userLiked |-> key \in likeEdges,
                                 userDisliked |-> key \in dislikeEdges])]

\* MemStorage.dislikeVideo on the store S
dislikeVideo(S, id, userId) ==
    IF id \notin DOMAIN S.videos
    THEN [store |-> S, threw |-> TRUE, ret |-> Undefined]
    ELSE
      LET video == S.videos[id]
          likeKey == Key(id, userId)
          dislikeKey == Key(id, userId)
          after ==
            IF dislikeKey \in S.userDislikes
            THEN [video |-> [video EXCEPT !.dislikes = Max(0, @ - 1)],
                  userLikes |-> S.userLikes,
                  userDislikes |-> S.userDislikes \ {dislikeKey}]
            ELSE IF likeKey \in S.userLikes
            THEN [video |-> [video EXCEPT !.dislikes = @ + 1,
                                          !.likes = Max(0, @ - 1)],
                  userLikes |-> S.userLikes \ {likeKey},
                  userDislikes |-> S.userDislikes \cup {dislikeKey}]
            ELSE [video |-> [video EXCEPT !.dislikes = @ + 1],
                  userLikes |-> S.userLikes,
                  userDislikes |-> S.userDislikes \cup {dislikeKey}]
      IN  [store |-> [videos |-> MapSet(S.videos, id, after.video),
                      userLikes |-> after.userLikes,
                      userDislikes |-> after.userDislikes],
           threw |-> FALSE,
           ret |-> Merge(after.video,
                         [userLiked |-> likeKey \in after.userLikes,
                          userDisliked |-> dislikeKey \in after.userDislikes])]

\* a faulty id allocation that counts the stored videos and so reuses ids
nextVideoIdCounted == Cardinality(DOMAIN videos) + 1

\* const id = this.videoId++
nextVideoId == videoId

\* the Video createVideo builds for the id it allocated
NewVideo(id, insertVideo) ==
    Merge(Merge([isDeleted |-> FALSE, permanentlyDeleted |-> FALSE], insertVideo),
          [id |-> id, views |-> 0, likes |-> 0, dislikes |-> 0])

\* MemStorage.createVideo: the video stored under the next id
createVideo(insertVideo) == NewVideo(nextVideoId, insertVideo)

\* MemStorage.updateVideo, for an id that is stored
updateVideo(id, updates) == MapSet(videos, id, Merge(videos[id], updates))

\* MemStorage.incrementViews
incrementViews(id) ==
    IF id \in DOMAIN videos
    THEN MapSet(videos, id, [videos[id] EXCEPT !.views = @ + 1])
    ELSE videos

\* a faulty createComment that numbers the comment by the stored comments
createCommentCounted(comment) ==
    Merge(comment, [id |-> Cardinality(DOMAIN comments) + 1,
                    likes |-> 0, dislikes |-> 0])

\* MemStorage.createComment: the comment stored under the next id
createComment(comment) == Merge(comment, [id |-> commentId, likes |-> 0, dislikes |-> 0])

\* a faulty addToWatchHistory, without its slice(0, 100)
addToWatchHistoryNoSlice(userId, vid) ==
    LET Other(id) == id # vid IN <<vid>> \o SelectSeq(HistoryOf(userId), Other)

\* a faulty addToWatchHistory that pushes the id instead of unshifting it
addToWatchHistoryPush(userId, vid) ==
    LET Other(id) == id # vid
    IN  Slice(SelectSeq(HistoryOf(userId), Other) \o <<vid>>, 0, HistoryLimit)

\* MemStorage.addToWatchHistory: the array stored for the user
addToWatchHistory(userId, vid) ==
    LET history == HistoryOf(userId)
        Other(id) == id # vid
        filtered == SelectSeq(history, Other)
    IN  Slice(<<vid>> \o filtered, 0, HistoryLimit)

\* a faulty permanentlyDeleteVideo, without its loop over the comments
permanentlyDeleteVideoNoCascade(vid) == comments

\* MemStorage.permanentlyDeleteVideo: the comments it leaves
permanentlyDeleteVideo(vid) ==
    IF vid \in DOMAIN videos
    THEN [c \in {k \in DOMAIN comments : comments[k].videoId # vid} |-> comments[c]]
    ELSE comments

\* MemStorage.createPlaylist: the playlist stored under the next id
createPlaylist(playlist) == Merge(playlist, [id |-> playlistId, videos |-> <<>>])

\* MemStorage.getNextPlaylistPosition
getNextPlaylistPosition(pid) ==
    IF pid \in DOMAIN playlists THEN Len(playlists[pid].videos) ELSE 0

\* a faulty addVideoToPlaylist that pushes the entry before it looks the
\* video up
addVideoToPlaylistEarlyPush(pid, vid, position) ==
    IF pid \notin DOMAIN playlists
    THEN [playlists |-> playlists, threw |-> TRUE]
    ELSE [playlists |->
              MapSet(playlists, pid,
                     [playlists[pid] EXCEPT !.videos =
                         Append(@, Merge(IF vid \in DOMAIN videos
                                         THEN videos[vid] ELSE Undefined,
                                         [position |-> position]))]),
          threw |-> vid \notin DOMAIN videos]

\* MemStorage.addVideoToPlaylist: the playlists it leaves and whether it threw
\* 'Playlist not found' or 'Video not found'
addVideoToPlaylist(pid, vid, position) ==
    IF pid \notin DOMAIN playlists THEN [playlists |-> playlists, threw |-> TRUE]
    ELSE IF vid \notin DOMAIN videos THEN [playlists |-> playlists, threw |-> TRUE]
    ELSE [playlists |->
              MapSet(playlists, pid,
                     [playlists[pid] EXCEPT !.videos =
                         Append(@, Merge(videos[vid], [position |-> position]))]),
          threw |-> FALSE]

\* MemStorage.getPlaylistVideos: every entry has a position, and is replaced
\* by the video stored under its videoId when it has one that is stored
getPlaylistVideos(pid) ==
    IF pid \notin DOMAIN playlists THEN <<>>
    ELSE LET entries == playlists[pid].videos
         IN  [k \in 1 .. Len(entries) |->
                 IF /\ "videoId" \in DOMAIN entries[k]
                    /\ entries[k].videoId \in DOMAIN videos
                 THEN videos[entries[k].videoId]
                 ELSE entries[k]]

\* video.ad_revenue || 0, video.ad_impressions || 0, user.adRevenue || 0
adRevenueOfVideo(video) == IF "ad_revenue" \in DOMAIN video THEN video.ad_revenue ELSE 0
adImpressionsOf(video) ==
    IF "ad_impressions" \in DOMAIN video THEN video.ad_impressions ELSE 0
adRevenueOfUser(user) == IF "adRevenue" \in DOMAIN user THEN user.adRevenue ELSE 0

\* MemStorage.incrementVideoRevenue up to its await: the videos it leaves
incrementVideoRevenue(vid, amount, updateImpressions) ==
    IF vid \notin DOMAIN videos THEN videos
    ELSE [videos EXCEPT ![vid] =
             Merge(@, IF updateImpressions
                      THEN [ad_revenue |-> adRevenueOfVideo(@) + amount,
                            ad_impressions |-> adImpressionsOf(@) + 1]
                      ELSE [ad_revenue |-> adRevenueOfVideo(@) + amount])]

\* MemStorage.incrementVideoRevenue after its await: the users it leaves;
\* owner is the user getUser returned before the await
incrementOwnerRevenue(owner, amount) ==
    IF owner \notin DOMAIN users THEN users
    ELSE [users EXCEPT ![owner] =
             Merge(@, [adRevenue |-> adRevenueOfUser(@) + amount])]

\* MemStorage.createAd: the advertisement stored under the next id
createAd == [id |-> adIdNext, impressions |-> 0, clicks |-> 0]

\* MemStorage.updateAdStats: the ads it leaves
updateAdStats(id, impressions, clicks) ==
    IF id \notin DOMAIN ads THEN ads
    ELSE [ads EXCEPT ![id] = [@ EXCEPT !.impressions = @ + impressions,
                                        !.clicks = @ + clicks]]

\* MemStorage.getUserByUsername: the first stored user of that name
getUserByUsername(username) ==
    LET named == {u \in DOMAIN users : users[u].username = username}
    IN  IF named = {} THEN Undefined
        ELSE users[CHOOSE u \in named : \A w \in named : u <= w]

\* MemStorage.createUser: the user stored under the next id
createUser(insertUser) == Merge(insertUser, [id |-> userIdNext, subscribers |-> 0])

\* MemStorage.isSubscribed
isSubscribed(subscriberId, publisherId) ==
    \E k \in DOMAIN subscriptions :
        /\ subscriptions[k].subscriberId = subscriberId
        /\ subscriptions[k].publisherId = publisherId

\* MemStorage.createSubscription: the users and subscriptions it leaves
createSubscription(subscription) ==
    LET publisher == subscription.publisherId
    IN  [users |-> IF publisher \in DOMAIN users
                   THEN [users EXCEPT ![publisher].subscribers = @ + 1]
                   ELSE users,
         subscriptions |-> MapSet(subscriptions, subscriptionId,
                                  Merge(subscription, [id |-> subscriptionId]))]

\* the key `${userId}_${videoId}` of videoProgress
ProgressKey(uid, vid) == Key(uid, vid)

\* a faulty saveVideoProgress that keys the progress by the video alone
saveVideoProgressByVideo(uid, vid, progress) ==
    [k \in DOMAIN videoProgress \cup {ProgressKey(u, vid) : u \in Users} |->
        IF \E u \in Users : k = ProgressKey(u, vid) THEN progress
        ELSE videoProgress[k]]

\* MemStorage.saveVideoProgress
saveVideoProgress(uid, vid, progress) ==
    MapSet(videoProgress, ProgressKey(uid, vid), progress)

\* a number of seconds, and the undefined that Map.prototype.get returns
\* for a key that is not set
JsNumber(n) == [type |-> "number", value |-> n]
JsUndefined == [type |-> "undefined", value |-> 0]

\* whether x || 0 is x
Truthy(x) == x.type = "number" /\ x.value # 0

\* MemStorage.getVideoProgress: this.videoProgress.get(key) || 0
getVideoProgress(uid, vid) ==
    LET stored == IF ProgressKey(uid, vid) \in DOMAIN videoProgress
                  THEN videoProgress[ProgressKey(uid, vid)]
                  ELSE JsUndefined
    IN  IF Truthy(stored) THEN stored ELSE JsNumber(0)

(***************************************************************************)
(* The record of the last call.  For likeVideo and dislikeVideo it also    *)
(* keeps the reaction the user held on the video before the call (before)  *)
(* and, when the call before it was a successful likeVideo or dislikeVideo *)
(* of the same user on the same video, that call (prevOp) and the reaction *)
(* held before it (prevBefore).  n counts what the call removed.           *)
(***************************************************************************)
Call(op, id, user, ok) ==
    [op |-> op, id |-> id, user |-> user, ok |-> ok,
     before |-> "none", prevOp |-> "none", prevBefore |-> "none", n |-> 0]

Held(id, userId) ==
    IF Key(id, userId) \in userLikes
    THEN (IF Key(id, userId) \in userDislikes THEN "both" ELSE "liked")
    ELSE (IF Key(id, userId) \in userDislikes THEN "disliked" ELSE "none")

ReactionCall(op, id, userId, ok) ==
    LET chained == /\ last.op \in {"likeVideo", "dislikeVideo"}
                   /\ last.ok
                   /\ last.id = id
                   /\ last.user = userId
    IN  [Call(op, id, userId, ok) EXCEPT
            !.before = Held(id, userId),
            !.prevOp = IF chained THEN last.op ELSE "none",
            !.prevBefore = IF chained THEN last.before ELSE "none"]

\* users are created by POST /api/register, whose createUser call passes no
\* role: no stored user has one
userRole(userId) == "none"

(***************************************************************************)
(* GET /api/search: the helpers of the handler.  A number that need not be *)
(* an integer is held exactly: the value of similarity as the fraction     *)
(* num / den (den = 0: the NaN of 0 / 0), a searchScore in thousandths.    *)
(***************************************************************************)
IsWhitespace(c) == c = " "

\* String.prototype.trim
RECURSIVE TrimStart(_)
TrimStart(s) == IF s # <<>> /\ IsWhitespace(Head(s)) THEN TrimStart(Tail(s)) ELSE s

Trim(s) == Reverse(TrimStart(Reverse(TrimStart(s))))

\* s.split(/\s+/): every run of whitespace separates two pieces
RECURSIVE SplitWhitespace(_)
SplitWhitespace(s) ==
    LET spaces == {i \in 1 .. Len(s) : IsWhitespace(s[i])}
    IN  IF spaces = {} THEN <<s>>
        ELSE LET first == CHOOSE i \in spaces : \A k \in spaces : i <= k
                 rest == TrimStart(SubSeq(s, first, Len(s)))
             IN  <<SubSeq(s, 1, first - 1)>> \o SplitWhitespace(rest)

Min3(a, b, c) == Min(a, Min(b, c))

\* the inner loop of similarity, from column j on: row i of s1 against s2,
\* distances d (d[j + 1] is distances[j]), the running old and prev
RECURSIVE SimilarityRow(_, _, _, _, _, _, _)
SimilarityRow(s1, s2, i, j, d, old, prev) ==
    IF j >= Len(s2) THEN d
    ELSE LET temp == d[j + 2]
             cell == IF s1[i + 1] = s2[j + 1] THEN old
                     ELSE Min3(old, prev, d[j + 1]) + 1
         IN  SimilarityRow(s1, s2, i, j + 1, [d EXCEPT ![j + 2] = cell], temp, prev)

\* the outer loop of similarity, from row i on; old is what the row before
\* left in it
RECURSIVE SimilarityRows(_, _, _, _, _)
SimilarityRows(s1, s2, i, d, old) ==
    IF i >= Len(s1) THEN d
    ELSE SimilarityRows(s1, s2, i + 1, SimilarityRow(s1, s2, i, 0, d, old, i + 1),
                        i + 1)

\* distances[s2.length] at the return of similarity
similarityDistance(w1, w2) ==
    LET s1 == IF Len(w1) < Len(w2) THEN w2 ELSE w1
        s2 == IF Len(w1) < Len(w2) THEN w1 ELSE w2
        distances == [k \in 1 .. (Len(s2) + 1) |-> k - 1]
    IN  SimilarityRows(s1, s2, 0, distances, 0)[Len(s2) + 1]

\* similarity(s1, s2) = 1 - distances[s2.length] / Math.max(s1.length, s2.length)
similarity(w1, w2) ==
    LET m == Max(Len(w1), Len(w2))
    IN  [num |-> m - similarityDistance(w1, w2), den |-> m]

\* simScore > tenths / 10; a comparison with NaN is false
SimilarityAbove(sim, tenths) == sim.den > 0 /\ 10 * sim.num > tenths * sim.den

\* getNGrams(text, n)
getNGrams(text, n) ==
    IF Len(text) < n THEN <<>>
    ELSE [i \in 1 .. (Len(text) - n + 1) |-> SubSeq(text, i, i + n - 1)]

\* String.prototype.toUpperCase on one character, over the letters the model
\* uses
ToUpperCaseChar(c) ==
    IF \E i \in 1 .. Len(LowerChars) : LowerChars[i] = c
    THEN UpperChars[CHOOSE i \in 1 .. Len(LowerChars) : LowerChars[i] = c]
    ELSE c

\* the chain of replace calls of getPhoneticCode that turns letters into
\* digits, on one character
PhoneticDigit(c) ==
    IF c \in {"a", "e", "i", "o", "u", "y", "h", "w"} THEN "0"
    ELSE IF c \in {"b", "f", "p", "v"} THEN "1"
    ELSE IF c \in {"c", "g", "j", "k", "q", "s", "x", "z"} THEN "2"
    ELSE IF c \in {"d", "t"} THEN "3"
    ELSE IF c = "l" THEN "4"
    ELSE IF c \in {"m", "n"} THEN "5"
    ELSE IF c = "r" THEN "6"
    ELSE c

\* .replace(/(\d)\1+/g, '$1'): a run of one digit becomes that digit
RECURSIVE CollapseDigitRuns(_)
CollapseDigitRuns(s) ==
    IF Len(s) < 2 THEN s
    ELSE IF IsDigit(s[1]) /\ s[1] = s[2] THEN CollapseDigitRuns(Tail(s))
    ELSE <<s[1]>> \o CollapseDigitRuns(Tail(s))

\* String.prototype.padEnd(n, '0')
RECURSIVE PadEndZero(_, _)
PadEndZero(s, n) == IF Len(s) >= n THEN s ELSE PadEndZero(s \o <<"0">>, n)

\* getPhoneticCode(text)
getPhoneticCode(text) ==
    LET firstLetter == IF text = <<>> THEN <<>> ELSE <<ToUpperCaseChar(text[1])>>
        lower == ToLowerCase(text)
        digits == [i \in 1 .. Len(lower) |-> PhoneticDigit(lower[i])]
        NotZero(c) == c # "0"
        phonetic == CollapseDigitRuns(SelectSeq(digits, NotZero))
    IN  firstLetter \o PadEndZero(Slice(phonetic, 0, 3), 3)

\* sum of f over 1 .. n
RECURSIVE SumTo(_, _)
SumTo(f, n) == IF n = 0 THEN 0 ELSE f[n] + SumTo(f, n - 1)

\* what one word of the title adds to the score for the query word qWord
titleWordScore(word, qWord) ==
    LET simScore == similarity(word, qWord)
        wordNGrams == getNGrams(word, 3)
        queryNGrams == getNGrams(qWord, 3)
        Common(ng) == InArray(queryNGrams, ng)
        commonNGrams == SelectSeq(wordNGrams, Common)
    IN  (IF SimilarityAbove(simScore, 8) THEN 8
         ELSE IF SimilarityAbove(simScore, 6) THEN 6 ELSE 0)
        + (IF getPhoneticCode(word) = getPhoneticCode(qWord) THEN 7 ELSE 0)
        + Len(commonNGrams) * 2
        + (IF Includes(word, qWord) \/ Includes(qWord, word) THEN 4 ELSE 0)

\* what one word of the description adds to the score for qWord
descWordScore(word, qWord) ==
    (IF SimilarityAbove(similarity(word, qWord), 8) THEN 4 ELSE 0)
    + (IF getPhoneticCode(word) = getPhoneticCode(qWord) THEN 3 ELSE 0)

\* searchScore of one video for the normalized query, in thousandths
searchScore(video, normalizedQuery) ==
    LET title == ToLowerCase(video.title)
        description == ToLowerCase(IF video.description = Null THEN <<>>
                                   ELSE video.description)
        titleWords == SplitWhitespace(title)
        descWords == SplitWhitespace(description)
        queryWords == SplitWhitespace(normalizedQuery)
        perQueryWord ==
            [q \in 1 .. Len(queryWords) |->
                (IF Includes(title, queryWords[q]) THEN 10 ELSE 0)
                + (IF Includes(description, queryWords[q]) THEN 5 ELSE 0)
                + SumTo([w \in 1 .. Len(titleWords) |->
                            titleWordScore(titleWords[w], queryWords[q])],
                        Len(titleWords))
                + SumTo([w \in 1 .. Len(descWords) |->
                            descWordScore(descWords[w], queryWords[q])],
                        Len(descWords))]
    IN  1000 * SumTo(perQueryWord, Len(queryWords))
        + Min(video.views, 10000)
        + Min(10 * video.likes, 5000)

\* the comparator of the handler's sort: negative when a goes first
compareResults(a, b) ==
    LET scoreDiff == b.searchScore - a.searchScore
        popularityA == a.views + a.likes * 2
        popularityB == b.views + b.likes * 2
    IN  IF scoreDiff > 100 \/ scoreDiff < -100 THEN scoreDiff
        ELSE popularityB - popularityA

(***************************************************************************)
(* Array.prototype.sort(compareResults) as the engine that runs the server *)
(* (V8) does it for an array of fewer than 64 elements: the run the array  *)
(* starts with is found, turned around when it descends, and each further  *)
(* element is put into the sorted part at the place a binary search finds. *)
(***************************************************************************)
\* the length of the run a starts with, from index idx (0-based) on
RECURSIVE RunLength(_, _, _)
RunLength(a, idx, isDescending) ==
    IF idx >= Len(a) THEN idx
    ELSE LET order == compareResults(a[idx + 1], a[idx])
         IN  IF (isDescending /\ order >= 0) \/ (~isDescending /\ order < 0)
             THEN idx
             ELSE RunLength(a, idx + 1, isDescending)

\* the place (0-based) the binary search gives pivot in a[left .. right - 1]
RECURSIVE InsertionPoint(_, _, _, _)
InsertionPoint(a, pivot, left, right) ==
    IF left >= right THEN left
    ELSE LET mid == left + ((right - left) \div 2)
         IN  IF compareResults(pivot, a[mid + 1]) < 0
             THEN InsertionPoint(a, pivot, left, mid)
             ELSE InsertionPoint(a, pivot, mid + 1, right)

\* the array after the elements from index start (0-based) on were inserted
RECURSIVE BinaryInsertionSort(_, _)
BinaryInsertionSort(a, start) ==
    IF start >= Len(a) THEN a
    ELSE LET pivot == a[start + 1]
             left == InsertionPoint(a, pivot, 0, start)
         IN  BinaryInsertionSort(
                 SubSeq(a, 1, left) \o <<pivot>> \o SubSeq(a, left + 1, start)
                     \o SubSeq(a, start + 2, Len(a)),
                 start + 1)

sortResults(a) ==
    IF Len(a) < 2 THEN a
    ELSE LET isDescending == compareResults(a[2], a[1]) < 0
             runLength == RunLength(a, 2, isDescending)
             run == IF isDescending THEN Reverse(SubSeq(a, 1, runLength))
                    ELSE SubSeq(a, 1, runLength)
         IN  BinaryInsertionSort(run \o SubSeq(a, runLength + 1, Len(a)), runLength)

\* a faulty search without the handler's return for an empty query
searchWithoutEmptyCheck(query, categoryId) ==
    LET normalizedQuery == Trim(ToLowerCase(query))
        allVideos == getVideos(100, 0, categoryId, FALSE)
        scored == [i \in 1 .. Len(allVideos) |->
                     Merge(allVideos[i],
                           [searchScore |-> searchScore(allVideos[i], normalizedQuery)])]
        Positive(video) == video.searchScore > 0
    IN  sortResults(SelectSeq(scored, Positive))

\* a faulty search whose order depends on the request before it
searchUnstable(query, categoryId) ==
    IF query = <<>> THEN <<>>
    ELSE IF last.op = "GET /api/search"
         THEN Reverse(searchWithoutEmptyCheck(query, categoryId))
         ELSE searchWithoutEmptyCheck(query, categoryId)

\* GET /api/search: the response body; categoryId = 0 stands for none given.
\* The user the handler attaches to each result is left out.
search(query, categoryId) ==
    IF query = <<>> THEN <<>>
    ELSE LET normalizedQuery == Trim(ToLowerCase(query))
             allVideos == getVideos(100, 0, categoryId, FALSE)
             scored == [i \in 1 .. Len(allVideos) |->
                          Merge(allVideos[i],
                                [searchScore |->
                                    searchScore(allVideos[i], normalizedQuery)])]
             Positive(video) == video.searchScore > 0
         IN  sortResults(SelectSeq(scored, Positive))

\* the number of videos GET /api/search computes a score for
scoredBySearch(query, categoryId) ==
    IF query = <<>> THEN 0 ELSE Len(getVideos(100, 0, categoryId, FALSE))

(***************************************************************************)
(* The Video a caller holds.  getVideo without a userId, createVideo and   *)
(* updateVideo return the object that is stored in the map, getVideo with  *)
(* a userId returns a new object.  aliased says that the caller's variable *)
(* and the map refer to one object; at is the value at the return, value   *)
(* what the caller reads from its variable now.                            *)
(***************************************************************************)
NoResponse == [args |-> <<>>, body |-> <<>>, scored |-> 0]

\* the response of a call that scores nothing
Returned(args, body) == [args |-> args, body |-> body, scored |-> 0]

NothingHeld == [id |-> 0, aliased |-> FALSE, at |-> Undefined, value |-> Undefined]

\* the caller's variable after a method that assigned to fields of the
\* object stored under id (video.views += 1, video.likes = ...)
HeldThrough(id, after) ==
    IF held.aliased /\ held.id = id /\ id \in DOMAIN after
    THEN [held EXCEPT !.value = after[id]]
    ELSE held

\* the caller's variable after a method that, when wrote, put another object
\* under id (updateVideo's { ...video, ...updates }) or deleted the key
HeldApart(id, wrote) ==
    IF wrote /\ held.id = id THEN [held EXCEPT !.aliased = FALSE] ELSE held

(***************************************************************************)
(* The state after new MemStorage(), and the one after POST /api/register  *)
(* has then stored the users of Users: in Init they are registered.        *)
(***************************************************************************)
Usernames == [u \in Users |-> IF u = 1 THEN "ann" ELSE "bob"]

\* sessions[token] = { userId, expires: new Date(Date.now() + 24 hours) }
NewSession(userId) ==
    [userId |-> userId, expires |-> now + SessionLifetime, present |-> TRUE]

\* nothing registered, no session, nothing suspended
ConstructedAccounts ==
    /\ users = EmptyMap
    /\ userIdNext = 1
    /\ subscriptions = EmptyMap
    /\ subscriptionId = 1
    /\ videoProgress = EmptyMap
    /\ ads = EmptyMap
    /\ adIdNext = 1
    /\ sessions = <<>>
    /\ now = 0
    /\ inflight = <<>>

\* the users of Users registered one after the other, each with its session
RegisteredAccounts ==
    /\ users = [u \in Users |-> [id |-> u, username |-> Usernames[u],
                                  subscribers |-> 0]]
    /\ userIdNext = Cardinality(Users) + 1
    /\ subscriptions = EmptyMap
    /\ subscriptionId = 1
    /\ videoProgress = EmptyMap
    /\ ads = EmptyMap
    /\ adIdNext = 1
    /\ now = 0
    /\ sessions = [t \in 1 .. Cardinality(Users) |-> NewSession(t)]
    /\ inflight = <<>>

Init ==
    /\ videos = EmptyMap
    /\ videoId = 1
    /\ comments = EmptyMap
    /\ commentId = 1
    /\ userLikes = {}
    /\ userDislikes = {}
    /\ userSavedVideos = {}
    /\ watchHistory = EmptyMap
    /\ playlists = EmptyMap
    /\ playlistId = 1
    /\ held = NothingHeld
    /\ response = NoResponse
    /\ last = Call("new", 0, 0, TRUE)
    /\ purged = {}
    /\ recOrder = [u \in Users |-> <<>>]
    /\ RegisteredAccounts

(***************************************************************************)
(* The operations of the store.                                            *)
(***************************************************************************)
CreateVideo(insertVideo) ==
    /\ videos' = MapSet(videos, nextVideoId, createVideo(insertVideo))
    /\ videoId' = videoId + 1
    /\ last' = Call("createVideo", nextVideoId, insertVideo.userId, TRUE)
    /\ UNCHANGED <<accountVars, playlists, playlistId, held, response,
                   comments, commentId, userLikes, userDislikes, userSavedVideos,
                   watchHistory, purged, recOrder>>

LikeVideo(id, userId) ==
    LET r == likeVideo(Reactions, id, userId)
    IN  /\ videos' = r.store.videos
        /\ userLikes' = r.store.userLikes
        /\ userDislikes' = r.store.userDislikes
        /\ last' = ReactionCall("likeVideo", id, userId, ~r.threw)
        /\ held' = HeldThrough(id, videos')
        /\ UNCHANGED <<accountVars, playlists, playlistId, response,
                       videoId, comments, commentId, userSavedVideos, watchHistory,
                       purged, recOrder>>

DislikeVideo(id, userId) ==
    LET r == dislikeVideo(Reactions, id, userId)
    IN  /\ videos' = r.store.videos
        /\ userLikes' = r.store.userLikes
        /\ userDislikes' = r.store.userDislikes
        /\ last' = ReactionCall("dislikeVideo", id, userId, ~r.threw)
        /\ held' = HeldThrough(id, videos')
        /\ UNCHANGED <<accountVars, playlists, playlistId, response,
                       videoId, comments, commentId, userSavedVideos, watchHistory,
                       purged, recOrder>>

\* MemStorage.updateVideo: throws 'Video not found' for an id not stored
UpdateVideo(id, updates) ==
    /\ videos' = IF id \in DOMAIN videos THEN updateVideo(id, updates) ELSE videos
    /\ last' = Call("updateVideo", id, 0, id \in DOMAIN videos)
    /\ held' = HeldApart(id, id \in DOMAIN videos)
    /\ UNCHANGED <<accountVars, playlists, playlistId, response,
                   videoId, comments, commentId, userLikes, userDislikes,
                   userSavedVideos, watchHistory, purged, recOrder>>

IncrementViews(id) ==
    /\ videos' = incrementViews(id)
    /\ last' = Call("incrementViews", id, 0, TRUE)
    /\ held' = HeldThrough(id, videos')
    /\ UNCHANGED <<accountVars, playlists, playlistId, response,
                   videoId, comments, commentId, userLikes, userDislikes,
                   userSavedVideos, watchHistory, purged, recOrder>>

CreateComment(vid, userId) ==
    /\ comments' = MapSet(comments, commentId,
                          createComment([videoId |-> vid, userId |-> userId]))
    /\ commentId' = commentId + 1
    /\ last' = Call("createComment", vid, userId, TRUE)
    /\ UNCHANGED <<accountVars, playlists, playlistId, held, response,
                   videos, videoId, userLikes, userDislikes, userSavedVideos,
                   watchHistory, purged, recOrder>>

PermanentlyDeleteVideo(vid) ==
    /\ videos' = IF vid \in DOMAIN videos THEN MapDelete(videos, vid) ELSE videos
    /\ comments' = permanentlyDeleteVideo(vid)
    /\ purged' = IF vid \in DOMAIN videos THEN purged \cup {vid} ELSE purged
    /\ last' = [Call("permanentlyDeleteVideo", vid, 0, vid \in DOMAIN videos) EXCEPT
                    !.n = Cardinality(DOMAIN comments) -
                          Cardinality(DOMAIN permanentlyDeleteVideo(vid))]
    /\ held' = HeldApart(vid, TRUE)
    /\ UNCHANGED <<accountVars, playlists, playlistId, response,
                   videoId, commentId, userLikes, userDislikes, userSavedVideos,
                   watchHistory, recOrder>>

\* MemStorage.permanentlyDeleteVideo called; last.ok tells that the call did
\* not throw: the method has no throw, and without the video it skips its if
PermanentlyDeleteVideoCall(vid) ==
    /\ videos' = IF vid \in DOMAIN videos THEN MapDelete(videos, vid) ELSE videos
    /\ comments' = permanentlyDeleteVideo(vid)
    /\ purged' = IF vid \in DOMAIN videos THEN purged \cup {vid} ELSE purged
    /\ last' = Call("permanentlyDeleteVideo called", vid, 0, TRUE)
    /\ held' = HeldApart(vid, TRUE)
    /\ UNCHANGED <<accountVars, playlists, playlistId, response,
                   videoId, commentId, userLikes, userDislikes, userSavedVideos,
                   watchHistory, recOrder>>

\* MemStorage.saveVideo, the userSavedVideos it leaves:
\* this.userSavedVideos.set(savedKey, true)
saveVideo(id, userId) == userSavedVideos \cup {Key(id, userId)}

\* an unsaveVideo that deletes nothing
unsaveVideoKeepsEdge(id, userId) == userSavedVideos

\* MemStorage.unsaveVideo, the userSavedVideos it leaves:
\* this.userSavedVideos.delete(savedKey)
unsaveVideo(id, userId) == userSavedVideos \ {Key(id, userId)}

\* MemStorage.saveVideo: throws 'Video not found' for an id not stored
SaveVideo(id, userId) ==
    /\ userSavedVideos' = IF id \in DOMAIN videos
                          THEN saveVideo(id, userId)
                          ELSE userSavedVideos
    /\ last' = Call("saveVideo", id, userId, id \in DOMAIN videos)
    /\ UNCHANGED <<accountVars, playlists, playlistId, held, response,
                   videos, videoId, comments, commentId, userLikes, userDislikes,
                   watchHistory, purged, recOrder>>

\* MemStorage.unsaveVideo: throws 'Video not found' for an id not stored
UnsaveVideo(id, userId) ==
    /\ userSavedVideos' = IF id \in DOMAIN videos
                          THEN unsaveVideo(id, userId)
                          ELSE userSavedVideos
    /\ last' = Call("unsaveVideo", id, userId, id \in DOMAIN videos)
    /\ UNCHANGED <<accountVars, playlists, playlistId, held, response,
                   videos, videoId, comments, commentId, userLikes, userDislikes,
                   watchHistory, purged, recOrder>>

AddToWatchHistory(userId, vid) ==
    /\ watchHistory' = MapSet(watchHistory, userId, addToWatchHistory(userId, vid))
    /\ recOrder' = [recOrder EXCEPT ![userId] =
                        LET Other(id) == id # vid IN Append(SelectSeq(@, Other), vid)]
    /\ last' = [Call("addToWatchHistory", vid, userId, TRUE) EXCEPT
                    !.n = Cardinality({HistoryOf(userId)[i] :
                                          i \in 1 .. Len(HistoryOf(userId))} \cup {vid})
                          - Len(addToWatchHistory(userId, vid))]
    /\ UNCHANGED <<accountVars, playlists, playlistId, held, response,
                   videos, videoId, comments, commentId, userLikes, userDislikes,
                   userSavedVideos, purged>>

CreatePlaylist(userId) ==
    /\ playlists' = MapSet(playlists, playlistId, createPlaylist([userId |-> userId]))
    /\ playlistId' = playlistId + 1
    /\ last' = Call("createPlaylist", playlistId, userId, TRUE)
    /\ UNCHANGED <<accountVars, videos, videoId, comments, commentId, userLikes, userDislikes,
                   userSavedVideos, watchHistory, held, response, purged, recOrder>>

\* last.id is the playlist and last.n the video the call named
AddVideoToPlaylist(pid, vid, position) ==
    LET r == addVideoToPlaylist(pid, vid, position)
    IN  /\ playlists' = r.playlists
        /\ last' = [Call("addVideoToPlaylist", pid, 0, ~r.threw) EXCEPT !.n = vid]
        /\ UNCHANGED <<accountVars, videos, videoId, comments, commentId, userLikes, userDislikes,
                       userSavedVideos, watchHistory, playlistId, held, response,
                       purged, recOrder>>

\* MemStorage.createSubscription called; last.id is the publisher, last.user
\* the subscriber and last.n the id of the record
CreateSubscription(subscriberId, publisherId) ==
    LET r == createSubscription([subscriberId |-> subscriberId,
                                 publisherId |-> publisherId])
    IN  /\ users' = r.users
        /\ subscriptions' = r.subscriptions
        /\ subscriptionId' = subscriptionId + 1
        /\ last' = [Call("createSubscription", publisherId, subscriberId, TRUE)
                        EXCEPT !.n = subscriptionId]
        /\ UNCHANGED <<videos, videoId, comments, commentId, userLikes,
                       userDislikes, userSavedVideos, watchHistory, playlists,
                       playlistId, userIdNext, videoProgress, sessions, now, ads, adIdNext, inflight,
                       held, response, purged, recOrder>>

\* MemStorage.saveVideoProgress called, as POST /api/videos/:id/progress
\* calls it with the progress of the request body
SaveVideoProgress(uid, vid, progress) ==
    /\ videoProgress' = saveVideoProgress(uid, vid, progress)
    /\ response' = Returned(<<uid, vid, progress>>, JsUndefined)
    /\ last' = Call("saveVideoProgress", vid, uid, TRUE)
    /\ UNCHANGED <<videos, videoId, comments, commentId, userLikes, userDislikes,
                   userSavedVideos, watchHistory, playlists, playlistId, users,
                   userIdNext, subscriptions, subscriptionId, sessions, now, ads, adIdNext, inflight,
                   held, purged, recOrder>>

\* MemStorage.getVideoProgress called
GetVideoProgress(uid, vid) ==
    /\ response' = Returned(<<uid, vid>>, getVideoProgress(uid, vid))
    /\ last' = Call("getVideoProgress", vid, uid, TRUE)
    /\ UNCHANGED <<videos, videoId, comments, commentId, userLikes, userDislikes,
                   userSavedVideos, watchHistory, playlists, playlistId, users,
                   userIdNext, subscriptions, subscriptionId, videoProgress,
                   sessions, now, ads, adIdNext, inflight, held, purged, recOrder>>

\* MemStorage.getPlaylistVideos called
GetPlaylistVideos(pid) ==
    /\ response' = Returned(<<pid>>, getPlaylistVideos(pid))
    /\ last' = Call("getPlaylistVideos", pid, 0, TRUE)
    /\ UNCHANGED <<accountVars, videos, videoId, comments, commentId, userLikes,
                   userDislikes, userSavedVideos, watchHistory, playlists,
                   playlistId, held, purged, recOrder>>

\* MemStorage.getVideo called; the caller keeps what it returns.  Without a
\* userId that is the stored object itself, with one a new object.
GetVideo(id, userId) ==
    /\ held' = [id |-> id,
                aliased |-> userId = 0 /\ id \in DOMAIN videos,
                at |-> getVideo(id, userId),
                value |-> getVideo(id, userId)]
    /\ response' = Returned(<<id, userId>>, getVideo(id, userId))
    /\ last' = Call("getVideo", id, userId, TRUE)
    /\ UNCHANGED <<accountVars, videos, videoId, comments, commentId, userLikes, userDislikes,
                   userSavedVideos, watchHistory, playlists, playlistId, purged,
                   recOrder>>

\* MemStorage.getVideos called in normal mode
GetVideos(limit, offset, categoryId) ==
    /\ response' = Returned(<<limit, offset, categoryId>>,
                            getVideos(limit, offset, categoryId, FALSE))
    /\ last' = Call("getVideos", 0, 0, TRUE)
    /\ UNCHANGED <<accountVars, videos, videoId, comments, commentId, userLikes, userDislikes,
                   userSavedVideos, watchHistory, playlists, playlistId, held,
                   purged, recOrder>>

\* a faulty getWatchHistory that turns the stored array around
watchHistoryReversedInPlace(userId) ==
    IF userId \in DOMAIN watchHistory
    THEN MapSet(watchHistory, userId, Reverse(watchHistory[userId]))
    ELSE watchHistory

\* this.watchHistory after getWatchHistory: map and filter build new arrays,
\* and reverse() turns the new one around
watchHistoryAfterGet(userId) == watchHistory

\* MemStorage.getWatchHistory called
GetWatchHistory(userId) ==
    /\ watchHistory' = watchHistoryAfterGet(userId)
    /\ response' = Returned(<<userId>>, getWatchHistory(userId))
    /\ last' = Call("getWatchHistory", 0, userId, TRUE)
    /\ UNCHANGED <<accountVars, videos, videoId, comments, commentId, userLikes, userDislikes,
                   userSavedVideos, playlists, playlistId, held, purged, recOrder>>

\* a call of the search handler's similarity(s1, s2) on two words
SimilarityCall(w1, w2) ==
    /\ response' = Returned(<<w1, w2>>, similarity(w1, w2))
    /\ last' = Call("similarity", 0, 0, TRUE)
    /\ UNCHANGED <<accountVars, videos, videoId, comments, commentId, userLikes, userDislikes,
                   userSavedVideos, watchHistory, playlists, playlistId, held,
                   purged, recOrder>>

(***************************************************************************)
(* Request handlers of routes.ts.  userId is the user checkAuth put on the *)
(* request; last.n is the status the handler answers with.                 *)
(***************************************************************************)
\* PUT /api/videos/:id: the request body goes to updateVideo as it came
UpdateVideoRequest(id, userId, body) ==
    LET video == getVideo(id, 0)
        allowed == video # Undefined /\ video.userId = userId
    IN  /\ videos' = IF allowed THEN updateVideo(id, body) ELSE videos
        /\ last' = [Call("PUT /api/videos/:id", id, userId, allowed) EXCEPT
                        !.n = IF allowed THEN 200 ELSE 403]
        /\ held' = HeldApart(id, allowed)
        /\ UNCHANGED <<accountVars, playlists, playlistId, response,
                       videoId, comments, commentId, userLikes, userDislikes,
                       userSavedVideos, watchHistory, purged, recOrder>>

\* POST /api/videos/:id/delete: move to trash
DeleteRequest(id, userId) ==
    LET video == getVideo(id, 0)
        allowed == video # Undefined /\
                   ~(userRole(userId) = "none" /\ video.userId # userId)
    IN  /\ videos' = IF allowed THEN updateVideo(id, [isDeleted |-> TRUE]) ELSE videos
        /\ last' = [Call("POST /api/videos/:id/delete", id, userId, allowed) EXCEPT
                        !.n = IF allowed THEN 200 ELSE 403]
        /\ held' = HeldApart(id, allowed)
        /\ UNCHANGED <<accountVars, playlists, playlistId, response,
                       videoId, comments, commentId, userLikes, userDislikes,
                       userSavedVideos, watchHistory, purged, recOrder>>

\* POST /api/videos/:id/restore
RestoreRequest(id, userId) ==
    LET video == getVideo(id, 0)
        status == IF video = Undefined THEN 404
                  ELSE IF video.userId # userId /\ userRole(userId) # "admin" THEN 403
                  ELSE IF video.permanentlyDeleted THEN 400
                  ELSE 200
    IN  /\ videos' = IF status = 200
                     THEN updateVideo(id, [isDeleted |-> FALSE,
                                           permanentlyDeleted |-> FALSE])
                     ELSE videos
        /\ last' = [Call("POST /api/videos/:id/restore", id, userId, status = 200)
                       EXCEPT !.n = status]
        /\ held' = HeldApart(id, status = 200)
        /\ UNCHANGED <<accountVars, playlists, playlistId, response,
                       videoId, comments, commentId, userLikes, userDislikes,
                       userSavedVideos, watchHistory, purged, recOrder>>

\* The two handlers registered for POST /api/videos/:id/permanent-delete, in
\* the order of their app.post calls; what each answers, and whether it
\* calls permanentlyDeleteVideo
adminPermanentDelete(id, userId) ==
    IF userRole(userId) # "admin" THEN 403 ELSE 200

ownerPermanentDelete(id, userId) ==
    LET video == getVideo(id, 0)
    IN  IF video = Undefined \/ (userRole(userId) = "none" /\ video.userId # userId)
        THEN 403 ELSE 200

permanentDeleteHandlers == <<"admin", "owner">>

\* POST /api/videos/:id/permanent-delete with the token of userId: the router
\* runs the first handler registered for the path, and that handler answers
\* without calling next
PermanentDeleteRequest(id, userId) ==
    LET status == IF Head(permanentDeleteHandlers) = "admin"
                  THEN adminPermanentDelete(id, userId)
                  ELSE ownerPermanentDelete(id, userId)
        deletes == status = 200 /\ id \in DOMAIN videos
    IN  /\ videos' = IF deletes THEN MapDelete(videos, id) ELSE videos
        /\ comments' = IF status = 200 THEN permanentlyDeleteVideo(id) ELSE comments
        /\ purged' = IF deletes THEN purged \cup {id} ELSE purged
        /\ last' = [Call("POST /api/videos/:id/permanent-delete", id, userId,
                         status = 200) EXCEPT !.n = status]
        /\ held' = HeldApart(id, deletes)
        /\ UNCHANGED <<accountVars, playlists, playlistId, response,
                       videoId, commentId, userLikes, userDislikes,
                       userSavedVideos, watchHistory, recOrder>>

\* The GET routes for a path of one segment under /api/videos/, in the order
\* of their app.get calls: '/api/videos/admin', '/api/videos/:id' and
\* '/api/videos/saved'
AdminSegment == <<"a", "d", "m", "i", "n">>
IdParam == <<":", "i", "d">>
SavedSegment == <<"s", "a", "v", "e", "d">>
videoGetRoutes == <<AdminSegment, IdParam, SavedSegment>>

\* the router runs the first route that matches the segment; a parameter
\* matches every segment
matchedVideoGetRoute(segment) ==
    LET Matches(route) == route = IdParam \/ route = segment
        first == CHOOSE i \in 1 .. Len(videoGetRoutes) :
                    /\ Matches(videoGetRoutes[i])
                    /\ \A j \in 1 .. (i - 1) : ~Matches(videoGetRoutes[j])
    IN  videoGetRoutes[first]

\* GET /api/videos/<segment> for a segment that is not a number, with the
\* token of userId (0: without a valid token).  The :id handler answers 400
\* for a NaN id; the handlers behind checkAuth answer 401 without a user, the
\* admin one 403 without the role.  response.body is the handler that ran
\* and the list it sent, <<>> when it sent a message instead.
VideosSegmentRequest(segment, userId) ==
    LET route == matchedVideoGetRoute(segment)
        status == IF route = IdParam THEN 400
                  ELSE IF userId = 0 THEN 401
                  ELSE IF route = SavedSegment THEN 200
                  ELSE IF userRole(userId) = "admin" THEN 200 ELSE 403
        json == IF status = 200 /\ route = SavedSegment THEN getSavedVideos(userId)
                ELSE <<>>
    IN  /\ ~ParsesAsInt(segment)
        /\ response' = Returned(<<segment, userId>>, [handler |-> route, json |-> json])
        /\ last' = [Call("GET /api/videos/<segment>", 0, userId, status = 200)
                        EXCEPT !.n = status]
        /\ UNCHANGED <<storeVars, sessions, now, inflight, held, purged, recOrder>>

\* a faulty isFromLikeDislikeAction that is never true
neverFromLikeDislikeAction(flagged) == FALSE

\* isFromLikeDislikeAction of GET /api/videos/:id; flagged says that the
\* request carries x-from-action: true or a referer with /like or /dislike
isFromLikeDislikeAction(flagged) == flagged

\* GET /api/videos/:id for the user of the token (0: none); 404 when the
\* video is not stored
ViewRequest(id, userId, flagged) ==
    LET video == getVideo(id, userId)
        counted == video # Undefined /\ ~isFromLikeDislikeAction(flagged)
    IN  /\ videos' = IF counted THEN incrementViews(id) ELSE videos
        /\ watchHistory' = IF counted /\ userId # 0
                           THEN MapSet(watchHistory, userId,
                                       addToWatchHistory(userId, id))
                           ELSE watchHistory
        /\ recOrder' = IF counted /\ userId # 0
                       THEN [recOrder EXCEPT ![userId] =
                                LET Other(v) == v # id
                                IN  Append(SelectSeq(@, Other), id)]
                       ELSE recOrder
        /\ held' = HeldThrough(id, videos')
        /\ last' = [Call(IF flagged THEN "GET /api/videos/:id from action"
                         ELSE "GET /api/videos/:id",
                         id, userId, video # Undefined) EXCEPT
                        !.n = IF video = Undefined THEN 404 ELSE 200]
        /\ UNCHANGED <<accountVars, videoId, comments, commentId, userLikes, userDislikes,
                       userSavedVideos, playlists, playlistId, response, purged>>

\* POST /api/videos/:id/like: likeVideo, then the owner is read for the
\* response; 500 when likeVideo throws
LikeRequest(id, userId) == LikeVideo(id, userId)

\* POST /api/videos/:id/dislike
DislikeRequest(id, userId) == DislikeVideo(id, userId)

\* POST /api/videos/:id/save: saveVideo, then getVideo for the response
SaveRequest(id, userId) == SaveVideo(id, userId)

\* POST /api/videos/:id/unsave
UnsaveRequest(id, userId) == UnsaveVideo(id, userId)

(***************************************************************************)
(* Handlers that read the store, await, and write it afterwards.  The body *)
(* of an async store method runs when it is called; the handler that       *)
(* awaits its promise is suspended and resumed later from the job queue,   *)
(* behind the handlers suspended before it.  Each stretch between two      *)
(* awaits with a write behind the first is an action; last.n is 0 while    *)
(* the handler has not answered.                                           *)
(***************************************************************************)
\* what the steps of these handlers leave alone
videoVars == <<videos, videoId, comments, commentId, userLikes, userDislikes,
               userSavedVideos, watchHistory, playlists, playlistId, held,
               response, purged, recOrder>>

\* POST /api/channels/:publisherId/subscribe up to its first await: the
\* self check and the call of isSubscribed
SubscribeRequest(subscriberId, publisherId) ==
    /\ IF publisherId = subscriberId
       THEN /\ inflight' = inflight
            /\ last' = [Call("POST /api/channels/:publisherId/subscribe",
                             publisherId, subscriberId, FALSE) EXCEPT !.n = 400]
       ELSE /\ inflight' = Append(inflight,
                                  [op |-> "subscribe",
                                   subscriberId |-> subscriberId,
                                   publisherId |-> publisherId,
                                   alreadySubscribed |->
                                       isSubscribed(subscriberId, publisherId)])
            /\ last' = Call("POST /api/channels/:publisherId/subscribe",
                            publisherId, subscriberId, TRUE)
    /\ UNCHANGED <<videoVars, users, userIdNext, subscriptions, subscriptionId,
                   videoProgress, sessions, now, ads, adIdNext>>

\* the subscribe handler from its first await on: the answer to
\* alreadySubscribed, then createSubscription and the 201
SubscribeResume ==
    /\ inflight # <<>>
    /\ Head(inflight).op = "subscribe"
    /\ LET h == Head(inflight)
           r == createSubscription([subscriberId |-> h.subscriberId,
                                    publisherId |-> h.publisherId])
       IN  IF h.alreadySubscribed
           THEN /\ UNCHANGED <<users, subscriptions, subscriptionId>>
                /\ last' = [Call("subscribe resumed", h.publisherId,
                                 h.subscriberId, FALSE) EXCEPT !.n = 400]
           ELSE /\ users' = r.users
                /\ subscriptions' = r.subscriptions
                /\ subscriptionId' = subscriptionId + 1
                /\ last' = [Call("subscribe resumed", h.publisherId,
                                 h.subscriberId, TRUE) EXCEPT !.n = 201]
    /\ inflight' = Tail(inflight)
    /\ UNCHANGED <<videoVars, userIdNext, videoProgress, sessions, now, ads, adIdNext>>

\* POST /api/register up to its first await: registerSchema.parse (valid
\* says that the body passes) and the call of getUserByUsername
RegisterRequest(username, valid) ==
    /\ IF ~valid
       THEN /\ inflight' = inflight
            /\ last' = [Call("POST /api/register", 0, 0, FALSE) EXCEPT !.n = 400]
       ELSE /\ inflight' = Append(inflight,
                                  [op |-> "register",
                                   username |-> username,
                                   existingUser |-> getUserByUsername(username)])
            /\ last' = Call("POST /api/register", 0, 0, TRUE)
    /\ UNCHANGED <<videoVars, users, userIdNext, subscriptions, subscriptionId,
                   videoProgress, sessions, now, ads, adIdNext>>

\* the register handler from its first await to its second: the answer to
\* existingUser, then the call of createUser; last.id is the new user
RegisterResume ==
    /\ inflight # <<>>
    /\ Head(inflight).op = "register"
    /\ LET h == Head(inflight)
       IN  IF h.existingUser # Undefined
           THEN /\ inflight' = Tail(inflight)
                /\ UNCHANGED <<users, userIdNext>>
                /\ last' = [Call("register resumed", 0, 0, FALSE) EXCEPT !.n = 400]
           ELSE /\ users' = MapSet(users, userIdNext,
                                   createUser([username |-> h.username]))
                /\ userIdNext' = userIdNext + 1
                /\ inflight' = Append(Tail(inflight),
                                      [op |-> "register session",
                                       userId |-> userIdNext])
                /\ last' = Call("register resumed", userIdNext, 0, TRUE)
    /\ UNCHANGED <<videoVars, subscriptions, subscriptionId, videoProgress,
                   sessions, now, ads, adIdNext>>

\* the register handler from its second await on: the session of the new
\* user and the 201
RegisterSession ==
    /\ inflight # <<>>
    /\ Head(inflight).op = "register session"
    /\ sessions' = Append(sessions, NewSession(Head(inflight).userId))
    /\ inflight' = Tail(inflight)
    /\ last' = [Call("register answered", Head(inflight).userId, 0, TRUE)
                    EXCEPT !.n = 201]
    /\ UNCHANGED <<videoVars, users, userIdNext, subscriptions, subscriptionId,
                   videoProgress, now, ads, adIdNext>>

(***************************************************************************)
(* Tokens.  A token that createSessionToken made is a SHA-256 digest in    *)
(* hex, taken as new each time; HexToken(n) is the n-th one made, or a     *)
(* digest nobody was given when n is above their number.  sessions is an   *)
(* object literal, so sessions[token] also finds what Object.prototype     *)
(* holds: PrototypeToken is the token "constructor".  NoToken is a request *)
(* without an Authorization header.                                        *)
(***************************************************************************)
HexToken(n) == [name |-> "hex", n |-> n]
PrototypeToken == [name |-> "constructor", n |-> 0]
NoToken == [name |-> "", n |-> 0]

\* Object, the value of sessions["constructor"]: truthy, without expires
\* and without userId
ObjectConstructor == [function |-> "Object"]

\* sessions[token]
sessionOf(token) ==
    IF token.name = "hex"
    THEN IF token.n \in DOMAIN sessions /\ sessions[token.n].present
         THEN sessions[token.n] ELSE Undefined
    ELSE IF token = PrototypeToken THEN ObjectConstructor
    ELSE Undefined

\* checkAuth: [accepted, userId]; expires < new Date() is false for an
\* expires that is undefined
checkAuth(token) ==
    LET session == sessionOf(token)
        expired == "expires" \in DOMAIN session /\ session.expires < now
    IN  IF token = NoToken \/ session = Undefined \/ expired
        THEN [accepted |-> FALSE, userId |-> JsUndefined]
        ELSE [accepted |-> TRUE,
              userId |-> IF "userId" \in DOMAIN session
                         THEN JsNumber(session.userId) ELSE JsUndefined]

\* a request to a route behind checkAuth, up to next() or the 401
AuthRequest(token) ==
    /\ response' = Returned(<<token>>, checkAuth(token))
    /\ last' = [Call("checkAuth", 0, 0, checkAuth(token).accepted) EXCEPT
                    !.n = IF checkAuth(token).accepted THEN 200 ELSE 401]
    /\ UNCHANGED <<storeVars, sessions, now, inflight, held, purged, recOrder>>

\* POST /api/login; correct tells that the body's password hashes to the
\* stored one.  The handler's one await comes before its only write.
LoginRequest(username, correct) ==
    LET user == getUserByUsername(username)
        found == user # Undefined /\ correct
    IN  /\ sessions' = IF found THEN Append(sessions, NewSession(user.id))
                       ELSE sessions
        /\ last' = [Call("POST /api/login", IF found THEN Len(sessions) + 1 ELSE 0,
                         IF found THEN user.id ELSE 0, found) EXCEPT
                        !.n = IF found THEN 200 ELSE 401]
        /\ UNCHANGED <<storeVars, now, inflight, held, response, purged, recOrder>>

\* POST /api/logout: delete sessions[token]
LogoutRequest(token) ==
    /\ sessions' = IF token.name = "hex" /\ token.n \in DOMAIN sessions
                   THEN [sessions EXCEPT ![token.n].present = FALSE]
                   ELSE sessions
    /\ last' = [Call("POST /api/logout", token.n, 0, TRUE) EXCEPT !.n = 200]
    /\ UNCHANGED <<storeVars, now, inflight, held, response, purged, recOrder>>

\* ClockStep hours pass
Tick ==
    /\ now' = now + ClockStep
    /\ last' = Call("tick", 0, 0, TRUE)
    /\ UNCHANGED <<storeVars, sessions, inflight, held, response, purged, recOrder>>

\* what the steps of the add-video handler leave alone
playlistFrame == <<videos, videoId, comments, commentId, userLikes, userDislikes,
                   userSavedVideos, watchHistory, playlistId, held, response,
                   purged, recOrder, users, userIdNext, subscriptions,
                   subscriptionId, videoProgress, sessions, now, ads, adIdNext>>

\* POST /api/playlists/:playlistId/videos up to its first await: the call
\* of getPlaylistById; owner is the userId of the playlist it returns (0:
\* no playlist)
AddVideoRequest(pid, userId, vid) ==
    /\ inflight' = Append(inflight,
                          [op |-> "add video",
                           playlistId |-> pid, userId |-> userId, videoId |-> vid,
                           owner |-> IF pid \in DOMAIN playlists
                                     THEN playlists[pid].userId ELSE 0])
    /\ last' = [Call("POST /api/playlists/:playlistId/videos", pid, userId, TRUE)
                    EXCEPT !.n = 0]
    /\ UNCHANGED <<playlistFrame, playlists>>

\* the add-video handler from its first await to its second: the ownership
\* check and the call of getNextPlaylistPosition
AddVideoPosition ==
    /\ inflight # <<>>
    /\ Head(inflight).op = "add video"
    /\ LET h == Head(inflight)
       IN  IF h.owner # h.userId
           THEN /\ inflight' = Tail(inflight)
                /\ last' = [Call("add video refused", h.playlistId, h.userId, FALSE)
                                EXCEPT !.n = 403]
           ELSE /\ inflight' =
                      Append(Tail(inflight),
                             [op |-> "add video at", playlistId |-> h.playlistId,
                              userId |-> h.userId, videoId |-> h.videoId,
                              position |-> getNextPlaylistPosition(h.playlistId)])
                /\ last' = Call("add video position", h.playlistId, h.userId, TRUE)
    /\ UNCHANGED <<playlistFrame, playlists>>

\* the add-video handler from its second await on: the call of
\* addVideoToPlaylist, and the 201, or the 500 when it threw
AddVideoResume ==
    /\ inflight # <<>>
    /\ Head(inflight).op = "add video at"
    /\ LET h == Head(inflight)
           r == addVideoToPlaylist(h.playlistId, h.videoId, h.position)
       IN  /\ playlists' = r.playlists
           /\ last' = [Call("add video resumed", h.playlistId, h.userId, ~r.threw)
                           EXCEPT !.n = IF r.threw THEN 500 ELSE 201]
    /\ inflight' = Tail(inflight)
    /\ UNCHANGED playlistFrame

\* MemStorage.incrementVideoRevenue up to its await of getUser: the video is
\* written, and the method is suspended when the video has a userId
IncrementVideoRevenue(vid, amount, updateImpressions) ==
    /\ videos' = incrementVideoRevenue(vid, amount, updateImpressions)
    /\ held' = HeldThrough(vid, videos')
    /\ inflight' = IF vid \in DOMAIN videos /\ videos[vid].userId # 0
                   THEN Append(inflight, [op |-> "incrementVideoRevenue",
                                          owner |-> videos[vid].userId,
                                          amount |-> amount])
                   ELSE inflight
    /\ last' = Call("incrementVideoRevenue", vid, 0, vid \in DOMAIN videos)
    /\ UNCHANGED <<videoId, comments, commentId, userLikes, userDislikes,
                   userSavedVideos, watchHistory, playlists, playlistId, response,
                   purged, recOrder, users, userIdNext, subscriptions,
                   subscriptionId, videoProgress, sessions, now, ads, adIdNext>>

\* MemStorage.incrementVideoRevenue after its await: the owner is written
IncrementVideoRevenueResume ==
    /\ inflight # <<>>
    /\ Head(inflight).op = "incrementVideoRevenue"
    /\ users' = incrementOwnerRevenue(Head(inflight).owner, Head(inflight).amount)
    /\ inflight' = Tail(inflight)
    /\ last' = Call("incrementVideoRevenue resumed", 0, Head(inflight).owner, TRUE)
    /\ UNCHANGED <<videoVars, userIdNext, subscriptions, subscriptionId,
                   videoProgress, sessions, now, ads, adIdNext>>

\* MemStorage.createAd called
CreateAd ==
    /\ ads' = MapSet(ads, adIdNext, createAd)
    /\ adIdNext' = adIdNext + 1
    /\ last' = Call("createAd", adIdNext, 0, TRUE)
    /\ UNCHANGED <<videoVars, users, userIdNext, subscriptions, subscriptionId,
                   videoProgress, sessions, now, inflight>>

\* POST /api/advertisements/:id/impression?videoId=vid (vid = 0: without a
\* videoId), up to the await inside incrementVideoRevenue, where the call is
\* suspended when the video has a userId; last.n is the status sent, 0 when
\* none was sent yet, and last.user is the advertisement
ImpressionRequest(adId, vid) ==
    LET counted == adId \in DOMAIN ads /\ vid # 0
        video == getVideo(vid, 0)
        paid == counted /\ video # Undefined
    IN  /\ ads' = IF counted THEN updateAdStats(adId, 1, 0) ELSE ads
        /\ videos' = IF paid THEN incrementVideoRevenue(vid, revenueInCents, TRUE)
                     ELSE videos
        /\ held' = HeldThrough(vid, videos')
        /\ inflight' = IF paid /\ video.userId # 0
                       THEN Append(inflight, [op |-> "incrementVideoRevenue",
                                              owner |-> video.userId,
                                              amount |-> revenueInCents])
                       ELSE inflight
        /\ last' = [Call("POST /api/advertisements/:id/impression", vid, adId, paid)
                        EXCEPT !.n = IF adId \notin DOMAIN ads THEN 404
                                     ELSE IF vid = 0 THEN 200
                                     ELSE IF video = Undefined THEN 404
                                     ELSE 0]
        /\ UNCHANGED <<videoId, comments, commentId, userLikes, userDislikes,
                       userSavedVideos, watchHistory, playlists, playlistId,
                       response, purged, recOrder, users, userIdNext,
                       subscriptions, subscriptionId, videoProgress, adIdNext,
                       sessions, now>>

\* GET /api/search; last.id is the categoryId, and last.n is 2 when the
\* request repeats the one before it on the same store, else 1
SearchRequest(query, categoryId) ==
    /\ response' = [args |-> <<query, categoryId>>,
                    body |-> search(query, categoryId),
                    scored |-> scoredBySearch(query, categoryId)]
    /\ last' = [Call("GET /api/search", categoryId, 0, TRUE) EXCEPT
                    !.n = IF last.op = "GET /api/search"
                             /\ response.args = <<query, categoryId>>
                          THEN 2 ELSE 1]
    /\ UNCHANGED <<accountVars, videos, videoId, comments, commentId, userLikes, userDislikes,
                   userSavedVideos, watchHistory, playlists, playlistId, held,
                   purged, recOrder>>

(***************************************************************************)
(* Spec: one uploader's videos and the reactions of the users on them.     *)
(***************************************************************************)
\* the video POST /api/videos is asked to create
InsertVideos ==
    {[userId |-> 1, categoryId |-> 2, title |-> <<"a">>, description |-> Null]}

\* bodies of PUT /api/videos/:id that set a counter
CounterBodies == {[likes |-> -1], [dislikes |-> -1]}

Next ==
    \/ \E v \in InsertVideos : videoId <= MaxVideos /\ CreateVideo(v)
    \/ \E id \in VideoIds, u \in Users : LikeVideo(id, u)
    \/ \E id \in VideoIds, u \in Users : DislikeVideo(id, u)
    \/ \E id \in VideoIds, u \in Users, body \in CounterBodies :
            UpdateVideoRequest(id, u, body)

Spec == Init /\ [][Next]_vars

(***************************************************************************)
(* Properties of the reactions, checked under Spec.                        *)
(***************************************************************************)
\* C1: whatever likeVideo and dislikeVideo calls were made, no (video, user)
\* pair holds a like edge and a dislike edge at once.
NoPairLikedAndDisliked ==
    \A id \in VideoIds, u \in Users :
        ~(Key(id, u) \in userLikes /\ Key(id, u) \in userDislikes)

\* C1's case: a user who liked a video has just disliked it.
SwitchedLikeToDislike ==
    /\ last.op = "dislikeVideo"
    /\ last.ok
    /\ last.before = "liked"
    /\ Key(last.id, last.user) \in userDislikes

\* C2, as claimed: from any reachable state, likeVideo(c, u) followed at once
\* by dislikeVideo(c, u) leaves u's dislike edge set and u's like edge clear,
\* and when u held no reaction before, likes is back at its starting value and
\* dislikes is one higher.
LikeThenDislike ==
    \A c \in DOMAIN videos, u \in Users :
        LET S1 == likeVideo(Reactions, c, u).store
            S2 == dislikeVideo(S1, c, u).store
        IN  /\ Key(c, u) \in S2.userDislikes
            /\ Key(c, u) \notin S2.userLikes
            /\ Held(c, u) = "none" =>
                  /\ S2.videos[c].likes = videos[c].likes
                  /\ S2.videos[c].dislikes = videos[c].dislikes + 1

\* C3, as claimed: for every stored video c and every user u, likeVideo(c, u)
\* twice in a row gives back likes, dislikes and u's two edges as they were,
\* with the like edge clear.
LikeTwiceRestoresAlways ==
    \A c \in DOMAIN videos, u \in Users :
        LET S1 == likeVideo(Reactions, c, u).store
            S2 == likeVideo(S1, c, u).store
        IN  /\ S2.videos[c].likes = videos[c].likes
            /\ S2.videos[c].dislikes = videos[c].dislikes
            /\ (Key(c, u) \in S2.userLikes) = (Key(c, u) \in userLikes)
            /\ (Key(c, u) \in S2.userDislikes) = (Key(c, u) \in userDislikes)
            /\ Key(c, u) \notin S2.userLikes

\* C3, amended: for every stored video c and every user u who holds no
\* reaction on c, likeVideo(c, u) twice in a row leaves both of u's edges
\* clear, dislikes and every other video as they were, and likes at its
\* starting value when that was not negative, at 0 when it was.
LikeTwiceRestoresUnreacted ==
    \A c \in DOMAIN videos, u \in Users :
        Held(c, u) = "none" =>
            LET S1 == likeVideo(Reactions, c, u).store
                S2 == likeVideo(S1, c, u).store
            IN  /\ Key(c, u) \in S1.userLikes
                /\ S2.userLikes = userLikes
                /\ S2.userDislikes = userDislikes
                /\ S2.videos[c].dislikes = videos[c].dislikes
                /\ S2.videos[c].likes = Max(0, videos[c].likes)
                /\ \A k \in DOMAIN videos \ {c} : S2.videos[k] = videos[k]

\* C3's case: a user who held no reaction has liked the video twice in a row.
LikedTwiceInARow ==
    /\ last.op = "likeVideo"
    /\ last.ok
    /\ last.prevOp = "likeVideo"
    /\ last.prevBefore = "none"
    /\ Held(last.id, last.user) = "none"

\* C4: likeVideo and dislikeVideo on a video id that is not stored throw
\* 'Video not found' and leave every map and counter of the store as it was.
ReactionOnMissingVideoChangesNothing ==
    [][(last'.op \in {"likeVideo", "dislikeVideo"} /\ last'.id \notin DOMAIN videos)
          => (~last'.ok /\ UNCHANGED storeVars)]_vars

\* C4's case: a reaction on a missing video has just failed, in a store that
\* holds a video and reactions.
ReactionOnMissingVideoFailed ==
    /\ last.op \in {"likeVideo", "dislikeVideo"}
    /\ ~last.ok
    /\ last.id \notin DOMAIN videos
    /\ videos # EmptyMap
    /\ userLikes # {}

\* C5, as claimed: every stored video has likes >= 0 and dislikes >= 0.
CountersNeverNegative ==
    \A id \in DOMAIN videos : videos[id].likes >= 0 /\ videos[id].dislikes >= 0

(***************************************************************************)
(* SpecCounters: Spec and the view counter.                                *)
(***************************************************************************)
NextCounters ==
    \/ Next
    \/ \E id \in VideoIds :
            /\ id \in DOMAIN videos => videos[id].views < MaxViews
            /\ IncrementViews(id)

SpecCounters == Init /\ [][NextCounters]_vars

(***************************************************************************)
(* SpecHistory: videos, the watch histories and permanent deletion.        *)
(***************************************************************************)
NextHistory ==
    \/ \E v \in InsertVideos : videoId <= MaxPurgeVideos /\ CreateVideo(v)
    \/ \E u \in Users, id \in PurgeVideoIds : AddToWatchHistory(u, id)
    \/ \E id \in PurgeVideoIds : PermanentlyDeleteVideo(id)

SpecHistory == Init /\ [][NextHistory]_vars

\* the place of x in a sequence that holds it once
Pos(s, x) == CHOOSE i \in 1 .. Len(s) : s[i] = x

\* C7, as claimed: getWatchHistory(u) lists the recorded videos most recent
\* first (a video last recorded after another one comes before it) and omits
\* the ids whose video was permanently deleted.
HistoryMostRecentFirst ==
    \A u \in Users :
        LET r == getWatchHistory(u)
        IN  /\ \A i, j \in 1 .. Len(r) :
                  i < j => Pos(recOrder[u], r[i].id) > Pos(recOrder[u], r[j].id)
            /\ \A i \in 1 .. Len(r) : r[i].id \notin purged

(***************************************************************************)
(* SpecHistoryCap: the watch history at its limit.  It starts from the     *)
(* store in which HistoryLimit + MaxNewIds videos were created and user 1  *)
(* has viewed the first HistoryLimit - 1 or HistoryLimit of them, one      *)
(* after the other.                                                        *)
(***************************************************************************)
\* the stored history after videos 1 .. n were viewed in this order
ViewedInOrder(n) == [i \in 1 .. n |-> n + 1 - i]

\* the ids whose views are recorded from there
CapIds == {1, HistoryLimit - 1} \cup (HistoryLimit .. (HistoryLimit + MaxNewIds))

InitHistoryCap ==
    /\ videos = [id \in 1 .. (HistoryLimit + MaxNewIds) |->
                    NewVideo(id, [userId |-> 1, categoryId |-> 2,
                                  title |-> <<"a">>, description |-> Null])]
    /\ videoId = HistoryLimit + MaxNewIds + 1
    /\ comments = EmptyMap
    /\ commentId = 1
    /\ userLikes = {}
    /\ userDislikes = {}
    /\ userSavedVideos = {}
    /\ \E n \in {HistoryLimit - 1, HistoryLimit} :
          /\ watchHistory = [u \in {1} |-> ViewedInOrder(n)]
          /\ recOrder = [u \in Users |-> IF u = 1 THEN [i \in 1 .. n |-> i] ELSE <<>>]
          /\ RegisteredAccounts
    /\ playlists = EmptyMap
    /\ playlistId = 1
    /\ held = NothingHeld
    /\ response = NoResponse
    /\ last = Call("new", 0, 0, TRUE)
    /\ purged = {}

NextHistoryCap ==
    \E id \in CapIds : AddToWatchHistory(1, id)

SpecHistoryCap == InitHistoryCap /\ [][NextHistoryCap]_vars

\* C6: every stored watch history has at most 100 entries and holds no video
\* id twice.
HistoryBoundedAndDistinct ==
    \A u \in DOMAIN watchHistory :
        /\ Len(watchHistory[u]) <= HistoryLimit
        /\ \A i, j \in 1 .. Len(watchHistory[u]) :
              i # j => watchHistory[u][i] # watchHistory[u][j]

\* C6's case: a view of one more video was recorded into a full history, and
\* the oldest entry went.
HistoryOverflowed ==
    /\ last.op = "addToWatchHistory"
    /\ last.n = 1
    /\ Len(HistoryOf(last.user)) = HistoryLimit
    /\ Len(recOrder[last.user]) > HistoryLimit

(***************************************************************************)
(* SpecTrash: a video moved to trash and back, saved and viewed.           *)
(***************************************************************************)
NextTrash ==
    \/ \E v \in InsertVideos : videoId <= MaxVideos /\ CreateVideo(v)
    \/ \E id \in VideoIds, u \in Users : DeleteRequest(id, u)
    \/ \E id \in VideoIds, u \in Users : RestoreRequest(id, u)
    \/ \E id \in VideoIds, u \in Users : SaveVideo(id, u)
    \/ \E id \in VideoIds, u \in Users : UnsaveVideo(id, u)
    \/ \E id \in VideoIds, u \in Users : AddToWatchHistory(u, id)

SpecTrash == Init /\ [][NextTrash]_vars

\* the array of videos r holds the video stored under id
Lists(r, id) == \E i \in 1 .. Len(r) : r[i].id = id

\* C8, as claimed: a video with isDeleted set is returned by none of getVideos
\* in normal mode, getUserVideos, searchVideos, getSavedVideos and
\* getWatchHistory.
SoftDeletedListedNowhere ==
    \A id \in DOMAIN videos :
        videos[id].isDeleted =>
            /\ ~Lists(getVideos(100, 0, 0, FALSE), id)
            /\ ~Lists(searchVideos(<<"a">>, 0), id)
            /\ \A u \in Users :
                  /\ ~Lists(getUserVideos(u), id)
                  /\ ~Lists(getSavedVideos(u), id)
                  /\ ~Lists(getWatchHistory(u), id)

(***************************************************************************)
(* SpecPurge: videos, their comments and permanent deletion.               *)
(***************************************************************************)
NextPurge ==
    \/ \E v \in InsertVideos : videoId <= MaxPurgeVideos /\ CreateVideo(v)
    \/ \E id \in PurgeVideoIds : commentId <= MaxComments /\ CreateComment(id, 1)
    \/ \E id \in PurgeVideoIds : PermanentlyDeleteVideo(id)

SpecPurge == Init /\ [][NextPurge]_vars

\* C9: a permanentlyDeleteVideo(v) of a stored video v leaves getVideo(v)
\* undefined and getVideoComments(v) empty, and leaves every other video and
\* every comment of another video as it was; it adds no video and no comment.
PermanentDeleteRemovesOnlyItsVideo ==
    [][\A v \in PurgeVideoIds :
          (last'.op = "permanentlyDeleteVideo" /\ last'.id = v /\ v \in DOMAIN videos)
          => /\ getVideo(v, 0)' = Undefined
             /\ getVideoComments(v)' = <<>>
             /\ DOMAIN videos' = DOMAIN videos \ {v}
             /\ \A w \in DOMAIN videos \ {v} : videos'[w] = videos[w]
             /\ DOMAIN comments' = {c \in DOMAIN comments : comments[c].videoId # v}
             /\ \A c \in DOMAIN comments' : comments'[c] = comments[c]]_vars

\* C9's case: a video with two or more comments was permanently deleted while
\* another video and a comment of another video were stored.
PurgedVideoWithComments ==
    /\ last.op = "permanentlyDeleteVideo"
    /\ last.ok
    /\ last.n >= 2
    /\ videos # EmptyMap
    /\ comments # EmptyMap

(***************************************************************************)
(* SpecTerminal: what can be tried on a video id after its permanent       *)
(* deletion.                                                               *)
(***************************************************************************)
\* the updates of POST /api/videos/:id/restore, handed to updateVideo
RestoreUpdates == [isDeleted |-> FALSE, permanentlyDeleted |-> FALSE]

NextTerminal ==
    \/ \E v \in InsertVideos : videoId <= MaxPurgeVideos /\ CreateVideo(v)
    \/ \E id \in PurgeVideoIds : PermanentlyDeleteVideo(id)
    \/ \E id \in PurgeVideoIds : DeleteRequest(id, 1)
    \/ \E id \in PurgeVideoIds : RestoreRequest(id, 1)
    \/ \E id \in PurgeVideoIds : UpdateVideo(id, RestoreUpdates)
    \/ \E id \in PurgeVideoIds : LikeVideo(id, 1)
    \/ \E id \in PurgeVideoIds : DislikeVideo(id, 1)

SpecTerminal == Init /\ [][NextTerminal]_vars

\* C10: getVideo resolves no id that was permanently deleted, whatever restore
\* requests, updateVideo, createVideo, likeVideo and dislikeVideo calls came
\* after the deletion.
PermanentlyDeletedStaysGone ==
    \A v \in purged : getVideo(v, 0) = Undefined

\* C10's case: after the permanent deletion of a video a restore of its id was
\* asked for and answered 404, a newer video being stored.
RestoreOfPurgedRefused ==
    /\ last.op = "POST /api/videos/:id/restore"
    /\ last.id \in purged
    /\ last.n = 404
    /\ \E w \in DOMAIN videos : w > last.id

(***************************************************************************)
(* SpecFailure: the store methods that throw 'Video not found' or          *)
(* 'Playlist not found', called with stored and with missing ids.          *)
(***************************************************************************)
NextFailure ==
    \/ \E v \in InsertVideos : videoId <= MaxVideos /\ CreateVideo(v)
    \/ playlistId <= MaxPlaylists /\ CreatePlaylist(1)
    \/ \E id \in VideoIds : UpdateVideo(id, [title |-> <<"b">>])
    \/ \E id \in VideoIds : SaveVideo(id, 1)
    \/ \E id \in VideoIds : UnsaveVideo(id, 1)
    \/ \E pid \in PlaylistIds, vid \in VideoIds :
          /\ (getNextPlaylistPosition(pid) < MaxPlaylistVideos \/ vid \notin DOMAIN videos)
          /\ AddVideoToPlaylist(pid, vid, getNextPlaylistPosition(pid))

SpecFailure == Init /\ [][NextFailure]_vars

\* C11: an updateVideo, saveVideo, unsaveVideo or addVideoToPlaylist call that
\* names a missing video or playlist fails, and a call of these that fails
\* leaves every map and counter of the store as it was.
FailedCallChangesNothing ==
    [][/\ (/\ last'.op \in {"updateVideo", "saveVideo", "unsaveVideo"}
           /\ last'.id \notin DOMAIN videos) => ~last'.ok
       /\ (/\ last'.op = "addVideoToPlaylist"
           /\ (last'.id \notin DOMAIN playlists \/ last'.n \notin DOMAIN videos))
          => ~last'.ok
       /\ (/\ last'.op \in {"updateVideo", "saveVideo", "unsaveVideo",
                            "addVideoToPlaylist"}
           /\ ~last'.ok) => UNCHANGED storeVars]_vars

\* C11's case: addVideoToPlaylist found the playlist, which already holds an
\* entry, and failed on the video.
AddOfMissingVideoFailed ==
    /\ last.op = "addVideoToPlaylist"
    /\ ~last.ok
    /\ last.id \in DOMAIN playlists
    /\ playlists[last.id].videos # <<>>
    /\ last.n \notin DOMAIN videos

(***************************************************************************)
(* SpecListing: videos of two categories, moved to trash and edited by     *)
(* their owner, as getVideos lists them.                                   *)
(***************************************************************************)
\* the videos POST /api/videos is asked to create, in categories 2 and 3
ListingVideos ==
    {[userId |-> 1, categoryId |-> c, title |-> <<"a">>, description |-> Null] :
        c \in {2, 3}}

\* bodies of PUT /api/videos/:id that name an id
IdBodies == {[id |-> 1]}

NextListing ==
    \/ \E v \in ListingVideos : videoId <= MaxListVideos /\ CreateVideo(v)
    \/ \E id \in ListVideoIds : DeleteRequest(id, 1)
    \/ \E id \in ListVideoIds, body \in IdBodies : UpdateVideoRequest(id, 1, body)

SpecListing == Init /\ [][NextListing]_vars

\* the keys of the videos that are neither soft- nor permanently deleted and
\* match the category (0: none given)
Listable(categoryId) ==
    {k \in DOMAIN videos :
        /\ ~videos[k].isDeleted
        /\ ~videos[k].permanentlyDeleted
        /\ (categoryId \in {0, 1} \/ videos[k].categoryId = categoryId)}

\* the videos of the keys K, the one that has i - 1 larger ids in K at place i
ByDescendingId(K) ==
    [i \in 1 .. Cardinality(K) |->
        videos[CHOOSE k \in K :
                  Cardinality({j \in K : videos[j].id > videos[k].id}) = i - 1]]

\* C12, as claimed: the listable videos have pairwise different ids, getVideos
\* returns the places offset .. offset + limit - 1 of their sequence by
\* descending id, and category 1 gives what no category gives.
GetVideosIsSliceOfDescendingIds ==
    \A limit \in 0 .. MaxListVideos, offset \in 0 .. MaxListVideos,
       categoryId \in 0 .. 3 :
        LET K == Listable(categoryId)
        IN  /\ \A j, k \in K : j # k => videos[j].id # videos[k].id
            /\ getVideos(limit, offset, categoryId, FALSE) =
                  SubSeq(ByDescendingId(K), offset + 1,
                         Min(offset + limit, Cardinality(K)))
            /\ getVideos(limit, offset, 1, FALSE) = getVideos(limit, offset, 0, FALSE)

(***************************************************************************)
(* SpecSimilarity: similarity applied to every pair of words over three    *)
(* letters.                                                                *)
(***************************************************************************)
Letters == {"a", "b", "c"}

\* the words of at most MaxWordLen letters
Words == UNION {[1 .. n -> Letters] : n \in 0 .. MaxWordLen}

NextSimilarity == \E w1, w2 \in Words : SimilarityCall(w1, w2)

SpecSimilarity == Init /\ [][NextSimilarity]_vars

\* the Levenshtein edit distance of the first i letters of w1 and the first j
\* letters of w2
RECURSIVE Levenshtein(_, _, _, _)
Levenshtein(w1, w2, i, j) ==
    IF i = 0 THEN j
    ELSE IF j = 0 THEN i
    ELSE Min3(Levenshtein(w1, w2, i - 1, j) + 1,
              Levenshtein(w1, w2, i, j - 1) + 1,
              Levenshtein(w1, w2, i - 1, j - 1) + (IF w1[i] = w2[j] THEN 0 ELSE 1))

\* C20, as claimed: for two words that are not both empty similarity is
\* 1 - (Levenshtein distance) / (the greater length).
SimilarityIsNormalizedLevenshtein ==
    last.op = "similarity" =>
        LET w1 == response.args[1]
            w2 == response.args[2]
            m == Max(Len(w1), Len(w2))
        IN  m > 0 =>
                /\ response.body.den > 0
                /\ response.body.num * m =
                      (m - Levenshtein(w1, w2, Len(w1), Len(w2))) * response.body.den

\* C21, as claimed: the similarity of two empty strings is a number, and it
\* is 1.
SimilarityOfEmptyStringsIsOne ==
    (last.op = "similarity" /\ response.args = << <<>>, <<>> >>) =>
        /\ response.body.den # 0
        /\ response.body.num = response.body.den

(***************************************************************************)
(* SpecSearch: GET /api/search on a store of MaxSearchVideos videos with   *)
(* the title "a".  Each video was viewed and liked as one of Profiles      *)
(* says: fetched views times, and liked by the users 1 .. likes.           *)
(***************************************************************************)
Profiles ==
    {[views |-> 85, likes |-> 0], [views |-> 80, likes |-> 2],
     [views |-> 0, likes |-> 19]}

SearchVideoIds == 1 .. MaxSearchVideos

Queries == {<<>>, <<"a">>, <<"A", " ", "b">>}

InitSearch ==
    /\ \E profile \in [SearchVideoIds -> Profiles] :
          /\ videos = [id \in SearchVideoIds |->
                          Merge(NewVideo(id, [userId |-> 1, categoryId |-> 2,
                                              title |-> <<"a">>,
                                              description |-> Null]),
                                profile[id])]
          /\ userLikes = {Key(id, u) : id \in SearchVideoIds, u \in 1 .. 19}
                            \cap UNION {{Key(id, u) : u \in 1 .. profile[id].likes} :
                                           id \in SearchVideoIds}
    /\ videoId = MaxSearchVideos + 1
    /\ comments = EmptyMap
    /\ commentId = 1
    /\ userDislikes = {}
    /\ userSavedVideos = {}
    /\ watchHistory = EmptyMap
    /\ playlists = EmptyMap
    /\ playlistId = 1
    /\ held = NothingHeld
    /\ response = NoResponse
    /\ last = Call("new", 0, 0, TRUE)
    /\ purged = {}
    /\ recOrder = [u \in Users |-> <<>>]
    /\ RegisteredAccounts

NextSearch ==
    \/ \E query \in Queries, categoryId \in {0, 2} : SearchRequest(query, categoryId)
    \/ DeleteRequest(1, 1)

SpecSearch == InitSearch /\ [][NextSearch]_vars

\* C16: a search with the empty query answers with an empty list and has
\* computed a score for no video.
EmptyQueryFindsNothing ==
    (last.op = "GET /api/search" /\ response.args[1] = <<>>) =>
        (response.body = <<>> /\ response.scored = 0)

\* C16's case: the empty query was searched in a store that lists videos.
EmptyQuerySearched ==
    /\ last.op = "GET /api/search"
    /\ response.args[1] = <<>>
    /\ getVideos(100, 0, 0, FALSE) # <<>>

Popularity(video) == video.views + video.likes * 2

\* C18, as claimed: of two results whose searchScores differ by more than 0.1
\* the one with the higher score comes first.
ResultsDescendByScore ==
    last.op = "GET /api/search" =>
        \A i, j \in 1 .. Len(response.body) :
            LET a == response.body[i]
                b == response.body[j]
            IN  (i < j /\ (a.searchScore - b.searchScore > 100
                           \/ b.searchScore - a.searchScore > 100))
                    => a.searchScore > b.searchScore

\* C19, as claimed: of two results whose searchScores differ by at most 0.1
\* the one with the larger views + 2 * likes comes first.
NearTiesDescendByPopularity ==
    last.op = "GET /api/search" =>
        \A i, j \in 1 .. Len(response.body) :
            LET a == response.body[i]
                b == response.body[j]
            IN  (i < j /\ a.searchScore - b.searchScore <= 100
                       /\ b.searchScore - a.searchScore <= 100)
                    => Popularity(a) >= Popularity(b)

(***************************************************************************)
(* SpecReads: reads of the store between writes, and what the caller of    *)
(* getVideo holds afterwards.                                              *)
(***************************************************************************)
NextReads ==
    \/ \E v \in InsertVideos : videoId <= MaxVideos /\ CreateVideo(v)
    \/ \E id \in VideoIds : SaveVideo(id, 1)
    \/ \E id \in VideoIds : AddToWatchHistory(1, id)
    \/ \E id \in VideoIds, u \in {0, 1} : GetVideo(id, u)
    \/ GetVideos(MaxVideos, 0, 0)
    \/ GetWatchHistory(1)
    \/ SearchRequest(<<"a">>, 0)

SpecReads == Init /\ [][NextReads]_vars

\* C13: getVideo, getVideos, getWatchHistory and the search request leave
\* every map and counter of the store as it was, and what getVideo returns
\* for a stored video agrees with the stored video on each of its fields.
ReadsChangeNothing ==
    [][/\ last'.op \in {"getVideo", "getVideos", "getWatchHistory", "GET /api/search"}
          => UNCHANGED storeVars
       /\ (last'.op = "getVideo" /\ last'.id \in DOMAIN videos)
          => \A f \in DOMAIN videos[last'.id] :
                response'.body[f] = videos'[last'.id][f]]_vars

\* C13's case: getWatchHistory returned videos of a history of two ids.
HistoryWasRead ==
    /\ last.op = "getWatchHistory"
    /\ response.body # <<>>
    /\ Len(HistoryOf(last.user)) >= 2

(***************************************************************************)
(* SpecSnapshot: what the caller of getVideo holds while the store goes on *)
(* counting views and likes and replacing videos.                          *)
(***************************************************************************)
NextSnapshot ==
    \/ \E v \in InsertVideos : videoId <= MaxVideos /\ CreateVideo(v)
    \/ \E id \in VideoIds, u \in {0, 1} : GetVideo(id, u)
    \/ \E id \in VideoIds :
          (id \in DOMAIN videos => videos[id].views < MaxViews) /\ IncrementViews(id)
    \/ \E id \in VideoIds : LikeVideo(id, 1)
    \/ \E id \in VideoIds : UpdateVideo(id, [title |-> <<"b">>])

SpecSnapshot == Init /\ [][NextSnapshot]_vars

\* C14, as claimed: the value getVideo returned keeps the fields it had at
\* the return, whatever the store did afterwards.
HeldValueIsSnapshot ==
    held.id # 0 => held.value = held.at

(***************************************************************************)
(* SpecViews: fetches of a video, flagged and not, by a logged-in user and *)
(* by none, among like, dislike, save and unsave requests.                 *)
(***************************************************************************)
NextViews ==
    \/ \E v \in InsertVideos : videoId <= MaxVideos /\ CreateVideo(v)
    \/ \E id \in VideoIds, u \in {0, 1}, flagged \in BOOLEAN :
          /\ (id \in DOMAIN videos /\ ~flagged) => videos[id].views < MaxViews
          /\ ViewRequest(id, u, flagged)
    \/ \E id \in VideoIds : LikeRequest(id, 1)
    \/ \E id \in VideoIds : DislikeRequest(id, 1)
    \/ \E id \in VideoIds : SaveRequest(id, 1)
    \/ \E id \in VideoIds : UnsaveRequest(id, 1)

SpecViews == Init /\ [][NextViews]_vars

\* the view count of every stored video is what it was
ViewsUnchanged ==
    /\ DOMAIN videos' = DOMAIN videos
    /\ \A v \in DOMAIN videos : videos'[v].views = videos[v].views

\* C15: like, dislike, save and unsave requests and flagged fetches leave
\* every view count and watch history as it was; an unflagged fetch of a
\* stored video adds 1 to its view count and to no other, and puts the video
\* in front of the history of the logged-in user and changes no other history.
ViewsCountOnlyViews ==
    [][/\ last'.op \in {"likeVideo", "dislikeVideo", "saveVideo", "unsaveVideo",
                        "GET /api/videos/:id from action"}
          => (ViewsUnchanged /\ watchHistory' = watchHistory)
       /\ (last'.op = "GET /api/videos/:id" /\ last'.id \in DOMAIN videos)
          => /\ videos'[last'.id].views = videos[last'.id].views + 1
             /\ \A v \in DOMAIN videos \ {last'.id} : videos'[v] = videos[v]
             /\ IF last'.user = 0 THEN watchHistory' = watchHistory
                ELSE /\ Head(watchHistory'[last'.user]) = last'.id
                     /\ \A u \in DOMAIN watchHistory \ {last'.user} :
                           watchHistory'[u] = watchHistory[u]]_vars

\* C15's case: a logged-in user viewed a video that had been liked, and the
\* view was counted and recorded.
ViewedAgain ==
    /\ last.op = "GET /api/videos/:id"
    /\ last.user # 0
    /\ last.ok
    /\ videos[last.id].views >= 1
    /\ videos[last.id].likes >= 1
    /\ Head(watchHistory[last.user]) = last.id

(***************************************************************************)
(* SpecSubscriptions: createSubscription called for the registered users   *)
(* and for a publisher id no user has.                                     *)
(***************************************************************************)
NextSubscriptions ==
    \E s \in Users, p \in UserIds :
        subscriptionId <= MaxSubscriptions /\ CreateSubscription(s, p)

SpecSubscriptions == Init /\ [][NextSubscriptions]_vars

\* C22, as claimed: a createSubscription call adds 1 to the subscriber count
\* of the publisher and changes no other user, and it stores one more
\* subscription, the one asked for, and changes no stored one.
SubscriptionCountsOnce ==
    [][last'.op = "createSubscription" =>
          /\ \E p \in DOMAIN users :
                /\ p = last'.id
                /\ users'[p].subscribers = users[p].subscribers + 1
          /\ \A u \in DOMAIN users \ {last'.id} : users'[u] = users[u]
          /\ DOMAIN subscriptions' = DOMAIN subscriptions \cup {last'.n}
          /\ last'.n \notin DOMAIN subscriptions
          /\ subscriptions'[last'.n].subscriberId = last'.user
          /\ subscriptions'[last'.n].publisherId = last'.id
          /\ \A k \in DOMAIN subscriptions : subscriptions'[k] = subscriptions[k]]_vars

(***************************************************************************)
(* SpecSubscribe: subscribe requests of the two registered users, up to    *)
(* MaxInFlight of them suspended at one time.                              *)
(***************************************************************************)
NextSubscribe ==
    \/ \E s \in Users, p \in UserIds :
          /\ Len(inflight) < MaxInFlight
          /\ subscriptionId + Len(inflight) <= MaxSubscriptions
          /\ SubscribeRequest(s, p)
    \/ SubscribeResume

SpecSubscribe == Init /\ [][NextSubscribe]_vars

\* C23, as claimed: no stored subscription is of a user to itself, and no two
\* stored subscriptions have the same subscriber and the same publisher.
SubscriptionsUniqueAndNotToSelf ==
    \A k \in DOMAIN subscriptions :
        /\ subscriptions[k].subscriberId # subscriptions[k].publisherId
        /\ \A j \in DOMAIN subscriptions :
              (/\ subscriptions[j].subscriberId = subscriptions[k].subscriberId
               /\ subscriptions[j].publisherId = subscriptions[k].publisherId)
                  => j = k

(***************************************************************************)
(* SpecProgress: the progress of two users on the videos of VideoIds, in   *)
(* seconds.                                                                *)
(***************************************************************************)
ProgressValues == {JsNumber(0), JsNumber(3), JsNumber(7), JsNumber(9)}

\* the videos whose progress is saved; one of VideoIds is left without
ProgressVideoIds == 1 .. MaxVideos

NextProgress ==
    \/ \E u \in Users, v \in ProgressVideoIds, p \in ProgressValues :
          SaveVideoProgress(u, v, p)
    \/ \E u \in Users, v \in VideoIds : GetVideoProgress(u, v)

SpecProgress == Init /\ [][NextProgress]_vars

\* C24: the progress of every pair is 0 at first; a
\* saveVideoProgress(u, v, s) makes s what getVideoProgress(u, v) returns and
\* leaves what it returns for every other pair; no other call changes what
\* it returns for any pair.
ProgressIsLastSaved ==
    /\ \A u \in Users, v \in VideoIds :
          videoProgress = EmptyMap => getVideoProgress(u, v) = JsNumber(0)
    /\ [][\A u \in Users, v \in VideoIds :
             IF last'.op = "saveVideoProgress" /\ last'.user = u /\ last'.id = v
             THEN getVideoProgress(u, v)' = response'.args[3]
             ELSE getVideoProgress(u, v)' = getVideoProgress(u, v)]_vars

\* C24's case: a progress was saved for a pair while the same video has
\* another progress for the other user and none for a third pair.
ProgressSavedBesideAnother ==
    /\ last.op = "saveVideoProgress"
    /\ getVideoProgress(last.user, last.id) = JsNumber(9)
    /\ \E u \in Users \ {last.user} : getVideoProgress(u, last.id) = JsNumber(7)
    /\ \E u \in Users, v \in VideoIds : ProgressKey(u, v) \notin DOMAIN videoProgress

(***************************************************************************)
(* SpecPlaylist: add-video requests on the playlist of user 1, up to       *)
(* MaxInFlight of them suspended at one time.                              *)
(***************************************************************************)
NextPlaylist ==
    \/ \E v \in InsertVideos : videoId <= MaxVideos /\ CreateVideo(v)
    \/ playlistId <= MaxPlaylists /\ CreatePlaylist(1)
    \/ \E pid \in PlaylistIds, u \in Users, vid \in VideoIds :
          /\ Len(inflight) < MaxInFlight
          /\ getNextPlaylistPosition(pid) <= MaxPlaylistVideos
          /\ AddVideoRequest(pid, u, vid)
    \/ AddVideoPosition
    \/ AddVideoResume

SpecPlaylist == Init /\ [][NextPlaylist]_vars

\* C25, as claimed: in every playlist the k-th entry, counted from 0, carries
\* position k.
PositionsCountInsertions ==
    \A pid \in DOMAIN playlists :
        \A k \in 1 .. Len(playlists[pid].videos) :
            playlists[pid].videos[k].position = k - 1

(***************************************************************************)
(* SpecPlaylistVideos: the videos of a playlist read while the videos are  *)
(* viewed, liked and permanently deleted.                                  *)
(***************************************************************************)
NextPlaylistVideos ==
    \/ \E v \in InsertVideos : videoId <= MaxVideos /\ CreateVideo(v)
    \/ playlistId <= MaxPlaylists /\ CreatePlaylist(1)
    \/ \E pid \in PlaylistIds, vid \in VideoIds :
          /\ getNextPlaylistPosition(pid) <= MaxPlaylistVideos
          /\ AddVideoToPlaylist(pid, vid, getNextPlaylistPosition(pid))
    \/ \E id \in VideoIds :
          (id \in DOMAIN videos => videos[id].views < MaxViews) /\ IncrementViews(id)
    \/ \E id \in VideoIds : LikeVideo(id, 1)
    \/ \E id \in VideoIds : PermanentlyDeleteVideo(id)
    \/ \E pid \in PlaylistIds : GetPlaylistVideos(pid)

SpecPlaylistVideos == Init /\ [][NextPlaylistVideos]_vars

\* C26, as claimed: getPlaylistVideos returns one video per entry of the
\* playlist, in the order of the entries; where the entry's video is stored
\* it is that video as it is stored now, and where it is not the entry is
\* returned all the same.
PlaylistVideosAreCurrent ==
    (last.op = "getPlaylistVideos" /\ last.id \in DOMAIN playlists) =>
        LET entries == playlists[last.id].videos
        IN  /\ Len(response.body) = Len(entries)
            /\ \A k \in 1 .. Len(entries) :
                  /\ response.body[k].id = entries[k].id
                  /\ entries[k].id \in DOMAIN videos =>
                        \A f \in DOMAIN videos[entries[k].id] :
                            response.body[k][f] = videos[entries[k].id][f]

(***************************************************************************)
(* SpecRevenue: ad impressions paid to the videos of user 1 while the      *)
(* videos are read and liked.  revenueInCents is the amount the impression *)
(* handler passes.                                                         *)
(***************************************************************************)
NextRevenue ==
    \/ \E v \in InsertVideos : videoId <= MaxVideos /\ CreateVideo(v)
    \/ \E id \in VideoIds :
          /\ Len(inflight) < MaxInFlight
          /\ id \in DOMAIN videos => adImpressionsOf(videos[id]) < MaxImpressions
          /\ IncrementVideoRevenue(id, revenueInCents, TRUE)
    \/ IncrementVideoRevenueResume
    \/ \E id \in VideoIds : GetVideo(id, 0)
    \/ \E id \in VideoIds : LikeVideo(id, 1)
    \/ \E id \in VideoIds : DislikeVideo(id, 1)

SpecRevenue == Init /\ [][NextRevenue]_vars

\* the sum of f over the set S
RECURSIVE SumOver(_, _)
SumOver(f, S) ==
    IF S = {} THEN 0
    ELSE LET x == CHOOSE x \in S : TRUE IN f[x] + SumOver(f, S \ {x})

\* C27, as claimed: in every state in which another operation can run, each
\* user's accumulated revenue is the revenue of that user's videos, and each
\* video's likes and dislikes count its like and dislike edges.
NoHalfAppliedChange ==
    /\ \A u \in DOMAIN users :
          adRevenueOfUser(users[u]) =
              SumOver([v \in DOMAIN videos |-> adRevenueOfVideo(videos[v])],
                      {v \in DOMAIN videos : videos[v].userId = u})
    /\ \A v \in DOMAIN videos :
          /\ videos[v].likes = Cardinality({u \in Users : Key(v, u) \in userLikes})
          /\ videos[v].dislikes =
                Cardinality({u \in Users : Key(v, u) \in userDislikes})

\* C28: the video and comment counters start at 1; createVideo and
\* createComment give their entity the counter's value as id and key and add
\* 1 to the counter, and nothing else changes a counter; so the id is above
\* every id that is stored or was permanently deleted.
IdsAllocatedMonotonically ==
    /\ last.op = "new" => (videoId = 1 /\ commentId = 1)
    /\ [](\A k \in DOMAIN videos \cup purged : k < videoId)
    /\ [](\A k \in DOMAIN comments : k < commentId)
    /\ [][/\ IF last'.op = "createVideo"
             THEN /\ videoId' = videoId + 1
                  /\ last'.id = videoId
                  /\ DOMAIN videos' = DOMAIN videos \cup {videoId}
                  /\ videos'[videoId].id = videoId
             ELSE videoId' = videoId
          /\ IF last'.op = "createComment"
             THEN /\ commentId' = commentId + 1
                  /\ DOMAIN comments' = DOMAIN comments \cup {commentId}
                  /\ comments'[commentId].id = commentId
             ELSE commentId' = commentId]_vars

\* C28's case: a video and a comment were created after a permanent deletion
\* had removed a video and its comments.
CreatedAfterPurge ==
    /\ last.op = "createVideo"
    /\ purged # {}
    /\ \E c \in DOMAIN comments : Cardinality(DOMAIN comments) < c

(***************************************************************************)
(* SpecRegister: register requests on the store as it was constructed, up  *)
(* to MaxInFlight of them suspended at one time.                           *)
(***************************************************************************)
InitConstructed ==
    /\ videos = EmptyMap
    /\ videoId = 1
    /\ comments = EmptyMap
    /\ commentId = 1
    /\ userLikes = {}
    /\ userDislikes = {}
    /\ userSavedVideos = {}
    /\ watchHistory = EmptyMap
    /\ playlists = EmptyMap
    /\ playlistId = 1
    /\ held = NothingHeld
    /\ response = NoResponse
    /\ last = Call("new", 0, 0, TRUE)
    /\ purged = {}
    /\ recOrder = [u \in Users |-> <<>>]
    /\ ConstructedAccounts

\* the usernames asked for
RegisterNames == {"ann", "bob", "cat"}

NextRegister ==
    \/ \E name \in RegisterNames, valid \in BOOLEAN :
          /\ Len(inflight) < MaxInFlight
          /\ userIdNext + Len(inflight) <= MaxUsers
          /\ RegisterRequest(name, valid)
    \/ RegisterResume
    \/ RegisterSession

SpecRegister == InitConstructed /\ [][NextRegister]_vars

\* C29, as claimed: no two stored users have the same username, and each
\* session is of a stored user.
UsernamesUnique ==
    /\ \A u, w \in DOMAIN users : users[u].username = users[w].username => u = w
    /\ \A t \in DOMAIN sessions : sessions[t].userId \in DOMAIN users

(***************************************************************************)
(* Saving beside reacting: likes, dislikes, saves and unsaves of two users *)
(***************************************************************************)
NextSaved ==
    \/ \E v \in InsertVideos : videoId <= MaxVideos /\ CreateVideo(v)
    \/ \E id \in VideoIds, u \in Users : LikeVideo(id, u)
    \/ \E id \in VideoIds, u \in Users : DislikeVideo(id, u)
    \/ \E id \in VideoIds, u \in Users : SaveVideo(id, u)
    \/ \E id \in VideoIds, u \in Users : UnsaveVideo(id, u)

SpecSaved == Init /\ [][NextSaved]_vars

\* C30: likeVideo and dislikeVideo change no saved edge; saveVideo and
\* unsaveVideo change no like or dislike edge and no stored video, so no
\* count; a successful saveVideo leaves its pair saved and every other pair
\* as it was, and changes nothing when the pair was saved already; a
\* successful unsaveVideo leaves its pair unsaved, as it was before any save,
\* and every other pair as it was; a save or unsave that throws changes
\* nothing.
SavedIndependentOfReactions ==
    [][/\ last'.op \in {"likeVideo", "dislikeVideo"}
          => userSavedVideos' = userSavedVideos
       /\ last'.op \in {"saveVideo", "unsaveVideo"}
          => /\ userLikes' = userLikes
             /\ userDislikes' = userDislikes
             /\ videos' = videos
             /\ ~last'.ok => userSavedVideos' = userSavedVideos
       /\ (last'.op = "saveVideo" /\ last'.ok)
          => /\ Key(last'.id, last'.user) \in userSavedVideos'
             /\ userSavedVideos' \ {Key(last'.id, last'.user)}
                   = userSavedVideos \ {Key(last'.id, last'.user)}
             /\ Key(last'.id, last'.user) \in userSavedVideos
                   => userSavedVideos' = userSavedVideos
       /\ (last'.op = "unsaveVideo" /\ last'.ok)
          => /\ Key(last'.id, last'.user) \notin userSavedVideos'
             /\ userSavedVideos' \ {Key(last'.id, last'.user)}
                   = userSavedVideos \ {Key(last'.id, last'.user)}]_vars

\* C30's case: a user unsaved a video they like while another user, who
\* dislikes it, still has it saved.
UnsavedWhileLiked ==
    /\ last.op = "unsaveVideo" /\ last.ok
    /\ Key(last.id, last.user) \in userLikes
    /\ \E u \in Users \ {last.user} :
          /\ Key(last.id, u) \in userSavedVideos
          /\ Key(last.id, u) \in userDislikes

(***************************************************************************)
(* SpecPurgeCalls: permanent deletion called for stored and for missing    *)
(* ids, with what the call reports.                                        *)
(***************************************************************************)
NextPurgeCalls ==
    \/ \E v \in InsertVideos : videoId <= MaxPurgeVideos /\ CreateVideo(v)
    \/ \E id \in PurgeVideoIds : commentId <= MaxComments /\ CreateComment(id, 1)
    \/ \E id \in PurgeVideoIds : PermanentlyDeleteVideoCall(id)

SpecPurgeCalls == Init /\ [][NextPurgeCalls]_vars

\* C31, as claimed: a permanent deletion of a stored video removes the video
\* and all its comments; a permanent deletion of an id that is not stored
\* fails (NotFound) and changes nothing.
PermanentDeleteHasOneContract ==
    [][\A v \in PurgeVideoIds :
          (last'.op = "permanentlyDeleteVideo called" /\ last'.id = v)
          => IF v \in DOMAIN videos
             THEN /\ last'.ok
                  /\ DOMAIN videos' = DOMAIN videos \ {v}
                  /\ DOMAIN comments' =
                        {c \in DOMAIN comments : comments[c].videoId # v}
             ELSE /\ ~last'.ok
                  /\ videos' = videos
                  /\ comments' = comments]_vars

(***************************************************************************)
(* SpecHistoryOrder: views recorded at the limit of user 1's history while *)
(* user 2 has a history too.                                               *)
(***************************************************************************)
\* the ids whose views user 1 and user 2 record
ViewerIds == {1} \cup (HistoryLimit .. (HistoryLimit + MaxNewIds - 1))
OtherViewerIds == {1, HistoryLimit}

NextHistoryOrder ==
    \/ \E id \in ViewerIds : AddToWatchHistory(1, id)
    \/ \E id \in OtherViewerIds : AddToWatchHistory(2, id)

SpecHistoryOrder == InitHistoryCap /\ [][NextHistoryOrder]_vars

\* C32: addToWatchHistory(u, v) leaves v at the front of u's stored history,
\* keeps the other retained entries in the order they had, drops an entry
\* only when v and the other entries are more than 100, and then only the
\* oldest, last one, and leaves the history of every other user as it was.
AddToWatchHistoryMovesToFront ==
    [][\A u \in Users :
          (last'.op = "addToWatchHistory" /\ last'.user = u)
          => LET old == HistoryOf(u)
                 new == watchHistory'[u]
                 v == last'.id
                 Other(id) == id # v
                 others == SelectSeq(old, Other)
                 dropped == {old[i] : i \in 1 .. Len(old)}
                               \ {new[i] : i \in 1 .. Len(new)}
             IN  /\ new[1] = v
                 /\ LET Kept(id) == id \notin dropped
                    IN  Tail(new) = SelectSeq(others, Kept)
                 /\ dropped = IF Len(others) + 1 > HistoryLimit
                              THEN {old[Len(old)]} ELSE {}
                 /\ DOMAIN watchHistory' = DOMAIN watchHistory \cup {u}
                 /\ \A w \in DOMAIN watchHistory \ {u} :
                       watchHistory'[w] = watchHistory[w]]_vars

\* C32's case: user 1 recorded a view of a video new to a full history, and
\* the oldest entry went, while user 2 has a history of two videos.
OldestDroppedBesideOtherHistory ==
    /\ last.op = "addToWatchHistory"
    /\ last.user = 1
    /\ last.n = 1
    /\ Len(HistoryOf(1)) = HistoryLimit
    /\ Len(HistoryOf(2)) = 2

(***************************************************************************)
(* SpecBlankSearch: GET /api/search with queries of blanks only, on the    *)
(* stores of SpecSearch.                                                   *)
(***************************************************************************)
BlankQueries == {<<>>, <<" ">>, <<" ", " ">>, <<"a">>}

NextBlankSearch ==
    \/ \E query \in BlankQueries, categoryId \in {0, 2} :
          SearchRequest(query, categoryId)
    \/ DeleteRequest(1, 1)

SpecBlankSearch == InitSearch /\ [][NextBlankSearch]_vars

\* C33, as claimed: a search whose query has whitespace only answers with an
\* empty list and has computed a score for no video.
WhitespaceQueryFindsNothing ==
    (/\ last.op = "GET /api/search"
     /\ \A i \in 1 .. Len(response.args[1]) : IsWhitespace(response.args[1][i]))
    => (response.body = <<>> /\ response.scored = 0)

(***************************************************************************)
(* SpecOwnerPurge: videos of user 1, their comments, and permanent-        *)
(* delete requests of both users.                                          *)
(***************************************************************************)
NextOwnerPurge ==
    \/ \E v \in InsertVideos : videoId <= MaxPurgeVideos /\ CreateVideo(v)
    \/ \E id \in PurgeVideoIds : commentId <= MaxComments /\ CreateComment(id, 1)
    \/ \E id \in PurgeVideoIds, u \in Users : PermanentDeleteRequest(id, u)

SpecOwnerPurge == Init /\ [][NextOwnerPurge]_vars

\* C34, as claimed: after a permanent-delete request of the owner of a stored
\* video, the video and its comments are not in the store.
OwnerCanPermanentlyDelete ==
    [][\A v \in PurgeVideoIds :
          (/\ last'.op = "POST /api/videos/:id/permanent-delete"
           /\ last'.id = v
           /\ v \in DOMAIN videos
           /\ videos[v].userId = last'.user)
          => /\ v \notin DOMAIN videos'
             /\ \A c \in DOMAIN comments' : comments'[c].videoId # v]_vars

(***************************************************************************)
(* SpecSavedRoute: GET /api/videos/saved while the users save and unsave   *)
(* videos.                                                                 *)
(***************************************************************************)
NextSavedRoute ==
    \/ \E v \in InsertVideos : videoId <= MaxVideos + 1 /\ CreateVideo(v)
    \/ \E id \in VideoIds, u \in Users : SaveVideo(id, u)
    \/ \E id \in VideoIds, u \in Users : UnsaveVideo(id, u)
    \/ \E u \in {0} \cup Users : VideosSegmentRequest(SavedSegment, u)

SpecSavedRoute == Init /\ [][NextSavedRoute]_vars

\* C35, as claimed: a GET /api/videos/saved of a logged-in user is answered
\* by the saved-videos handler, with getSavedVideos of that user.
SavedRouteAnswersSavedVideos ==
    (/\ last.op = "GET /api/videos/<segment>"
     /\ response.args[1] = SavedSegment
     /\ last.user # 0)
    => /\ response.body.handler = SavedSegment
       /\ last.n = 200
       /\ response.body.json = getSavedVideos(last.user)

(***************************************************************************)
(* SpecSession: the tokens of the two registered users and of later        *)
(* logins, presented, logged out and left to expire.                       *)
(***************************************************************************)
PresentedTokens == {HexToken(n) : n \in 1 .. MaxTokens + 1}
                      \cup {PrototypeToken, NoToken}

NextSession ==
    \/ \E name \in RegisterNames, correct \in BOOLEAN :
          Len(sessions) < MaxTokens /\ LoginRequest(name, correct)
    \/ \E token \in PresentedTokens : LogoutRequest(token)
    \/ \E token \in PresentedTokens : AuthRequest(token)
    \/ now < MaxClock /\ Tick

SpecSession == Init /\ [][NextSession]_vars

\* C36, as claimed: checkAuth accepts a token only if a register or login
\* issued it, no logout was given it since, and its 24 hours have not
\* passed, and then attributes the request to the user it was issued for.
TokenAuthenticatesWhileValid ==
    (last.op = "checkAuth" /\ response.body.accepted)
    => LET token == response.args[1]
       IN  /\ token.name = "hex"
           /\ token.n \in DOMAIN sessions
           /\ sessions[token.n].present
           /\ sessions[token.n].expires >= now
           /\ response.body.userId = JsNumber(sessions[token.n].userId)

(***************************************************************************)
(* SpecImpression: ad impressions reported for stored and for missing      *)
(* videos.                                                                 *)
(***************************************************************************)
NextImpression ==
    \/ \E v \in InsertVideos : videoId <= MaxVideos /\ CreateVideo(v)
    \/ adIdNext <= MaxAds /\ CreateAd
    \/ \E adId \in 1 .. MaxAds + 1, vid \in {0} \cup VideoIds :
          /\ Len(inflight) < MaxInFlight
          /\ adId \in DOMAIN ads => ads[adId].impressions < MaxImpressions
          /\ ImpressionRequest(adId, vid)
    \/ IncrementVideoRevenueResume

SpecImpression == Init /\ [][NextImpression]_vars

\* C37, as claimed: an impression request that names a video that is not
\* stored answers 404 and changes no counter, the advertisement's impressions
\* included; one that names a stored video adds 1 to the advertisement's
\* impressions and to the video's, and 5 cents to the video's revenue, and
\* the call it leaves suspended adds 5 cents to the owner's revenue.
ImpressionCountsOnlyForStoredVideo ==
    [][/\ \A a \in DOMAIN ads, v \in VideoIds :
            (/\ last'.op = "POST /api/advertisements/:id/impression"
             /\ last'.user = a /\ last'.id = v)
            => IF v \in DOMAIN videos
               THEN /\ ads'[a].impressions = ads[a].impressions + 1
                    /\ adImpressionsOf(videos'[v]) = adImpressionsOf(videos[v]) + 1
                    /\ adRevenueOfVideo(videos'[v]) =
                          adRevenueOfVideo(videos[v]) + 5
                    /\ Len(inflight') = Len(inflight) + 1
               ELSE /\ last'.n = 404
                    /\ ads' = ads
                    /\ videos' = videos
                    /\ users' = users
       /\ last'.op = "incrementVideoRevenue resumed"
            => /\ adRevenueOfUser(users'[last'.user]) =
                     adRevenueOfUser(users[last'.user]) + 5
               /\ \A u \in DOMAIN users \ {last'.user} : users'[u] = users[u]]_vars

(***************************************************************************)
(* SpecEdges: createVideo, likeVideo, dislikeVideo, getVideo and           *)
(* incrementViews, without updateVideo.                                    *)
(***************************************************************************)
NextEdges ==
    \/ \E v \in InsertVideos : videoId <= MaxVideos /\ CreateVideo(v)
    \/ \E id \in VideoIds, u \in Users : LikeVideo(id, u)
    \/ \E id \in VideoIds, u \in Users : DislikeVideo(id, u)
    \/ GetVideo(1, 1)
    \/ (1 \in DOMAIN videos => videos[1].views < MaxViews) /\ IncrementViews(1)

SpecEdges == Init /\ [][NextEdges]_vars

\* the users with an edge to video v among the keys of edges
EdgeHolders(edges, v) == {u \in Users : Key(v, u) \in edges}

\* C38: each stored video's likes is the number of users with a like edge
\* to it, and its dislikes the number of users with a dislike edge to it.
CountsEqualEdges ==
    \A v \in DOMAIN videos :
        /\ videos[v].likes = Cardinality(EdgeHolders(userLikes, v))
        /\ videos[v].dislikes = Cardinality(EdgeHolders(userDislikes, v))

\* C38's case: a viewed video is liked by one user and disliked by the
\* other, who had liked it and switched.
LikedAndDislikedAfterSwitch ==
    /\ last.op = "dislikeVideo"
    /\ last.before = "liked"
    /\ last.id \in DOMAIN videos
    /\ videos[last.id].likes = 1
    /\ videos[last.id].dislikes = 1
    /\ videos[last.id].views >= 1


(***************************************************************************)
(* SpecUpdate: videos of both users, changed through updateVideo and       *)
(* through PUT /api/videos/:id.                                            *)
(***************************************************************************)
\* the videos createVideo is asked to store, one owner each
UpdateVideos ==
    {[userId |-> u, categoryId |-> 2, title |-> <<"a">>, description |-> Null] :
        u \in Users}

\* the changes a caller supplies: a title, a view count, an id
ChangeBodies ==
    {[title |-> <<"b">>], [views |-> 0]} \cup {[id |-> k] : k \in VideoIds}

NextUpdate ==
    \/ \E v \in UpdateVideos : videoId <= MaxVideos + 1 /\ CreateVideo(v)
    \/ \E id \in VideoIds, body \in ChangeBodies : UpdateVideo(id, body)
    \/ \E id \in VideoIds, u \in Users, body \in ChangeBodies :
          UpdateVideoRequest(id, u, body)

SpecUpdate == Init /\ [][NextUpdate]_vars

\* C39, as claimed: every entry of the videos map is stored under its own
\* id, videos[k].id = k, also after updateVideo(k, changes) with changes the
\* caller chose.
VideosStoredUnderOwnId == \A k \in DOMAIN videos : videos[k].id = k


(***************************************************************************)
(* SpecCommentRequests: videos created and permanently deleted while       *)
(* POST /api/videos/:id/comments stores comments.                          *)
(***************************************************************************)
\* POST /api/videos/:id/comments behind checkAuth: userId 0 is a request
\* whose userId is undefined (401); valid tells whether insertCommentSchema
\* accepts the body with videoId and userId put in (400 if not).  The video
\* is not looked up.  What follows createComment, getUser and the answer,
\* writes nothing, and users are never removed.
CommentRequest(id, userId, valid) ==
    LET status == IF userId = 0 THEN 401 ELSE IF valid THEN 201 ELSE 400
        comment == createComment([videoId |-> id, userId |-> userId])
    IN  /\ comments' = IF status = 201 THEN MapSet(comments, commentId, comment)
                       ELSE comments
        /\ commentId' = IF status = 201 THEN commentId + 1 ELSE commentId
        /\ last' = [Call("POST /api/videos/:id/comments", id, userId, status = 201)
                        EXCEPT !.n = status]
        /\ response' = IF status = 201 THEN Returned(<<id, userId>>, comment)
                       ELSE Returned(<<id, userId>>, Undefined)
        /\ UNCHANGED <<accountVars, playlists, playlistId, held,
                       videos, videoId, userLikes, userDislikes, userSavedVideos,
                       watchHistory, purged, recOrder>>

NextCommentRequests ==
    \/ \E v \in InsertVideos : videoId <= MaxPurgeVideos /\ CreateVideo(v)
    \/ \E id \in PurgeVideoIds, u \in {0, 1}, valid \in BOOLEAN :
          commentId <= MaxComments /\ CommentRequest(id, u, valid)
    \/ \E id \in PurgeVideoIds : PermanentlyDeleteVideo(id)

SpecCommentRequests == Init /\ [][NextCommentRequests]_vars

\* C40, as claimed: every stored comment is attached to a stored video, its
\* videoId is a key of the videos map, also for a comment that is created
\* after its video was permanently deleted.
CommentsAttachedToStoredVideo ==
    \A c \in DOMAIN comments : comments[c].videoId \in DOMAIN videos

=============================================================================
